---- MODULE Spec2Model ----
(***************************************************************************)
(* Watering firmware of the ESP32 single-plant watering system: the wake   *)
(* cycle of main.cpp, the decision engine and pulse-pump loop of           *)
(* watering.cpp and the timed pump run of pump.cpp, with the sensor,       *)
(* battery, reservoir and NVS collaborators they read.                     *)
(***************************************************************************)
EXTENDS Integers, Sequences, FiniteSets, TLC

\* ---------------------------------------------------------------- config.h
ADC_MAX_VALUE == 4095
BATTERY_WARNING_MV == 3600
BATTERY_CRITICAL_MV == 3000
DEFAULT_SENSOR_DRY == 3200
DEFAULT_SENSOR_WET == 1400
DEFAULT_MINIMAL_HUMIDITY == 40
DEFAULT_MAX_HUMIDITY == 70
PUMP_RUN_DURATION_MS == 3000
PUMP_MAX_DURATION_MS == 10000
SOAK_WAIT_TIME_MS == 60000
MAX_PUMP_PULSES == 8
MIN_WATERING_INTERVAL_SEC == 10800
MEASUREMENT_INTERVAL_SEC == 3600
ALERT_INTERVAL_SEC == 900
BTN_DEBOUNCE_MS == 50
BTN_LONG_PRESS_MS == 2000
MODE_TIMEOUT_MS == 8000
HUMIDITY_STEP == 5
LED_PAUSE_MS == 400

\* uint32_t as the model holds it: a pair <<high, low>> of 16-bit halves, since
\* 2^32 is beyond the integers of the model checker. The arithmetic below is
\* arithmetic modulo 2^32. It is used for millis(), the counter the firmware
\* subtracts across a possible wrap; the second counters of NVS stay far
\* below 2^31 within the bounds and are held as plain numbers.
HALF == 256 * 256

U32(n) == <<n \div HALF, n % HALF>>

U32Add(x, n) ==
    LET low == x[2] + n
    IN  <<(x[1] + (low \div HALF)) % HALF, low % HALF>>

\* variant: a difference that stops at zero when the minuend is the smaller
\* number, where the unsigned subtraction wraps
U32SubSaturating(x, y) ==
    LET low == x[2] - y[2]
        borrow == IF low < 0 THEN 1 ELSE 0
    IN  IF x[1] < y[1] \/ (x[1] = y[1] /\ x[2] < y[2])
        THEN <<0, 0>>
        ELSE <<(x[1] - y[1] - borrow + HALF) % HALF, (low + HALF) % HALF>>

U32Sub(x, y) ==
    LET low == x[2] - y[2]
        borrow == IF low < 0 THEN 1 ELSE 0
    IN  <<(x[1] - y[1] - borrow + HALF) % HALF, (low + HALF) % HALF>>

\* x < n for a uint32_t x and a number n below 2^31
U32Less(x, n) == x[1] < HALF \div 2 /\ x[1] * HALF + x[2] < n

\* ------------------------------------------------------------------ bounds
\* wake cycles that advance the persisted boot counter
MaxBoots == 2

\* advances of millis() between two evaluations of the pump run loop (ms): a
\* run of PUMP_RUN_DURATION_MS ends exactly on the duration or overshoots it
TickSteps == {1500, 3000}

\* raw samples the ADC average can deliver: the edges of the validity band
\* and the edges of the 40 % and 70 % thresholds under the default calibration
RawSamples == {99, 100, 1940, 1941, 2480, 2481, 3995, 3996}

\* battery voltages a reading can deliver (mV): both sides of each threshold
BatteryMvs == {2999, 3000, 3600}

\* minimal-humidity thresholds NVS can hold
MinHumidities == {0, DEFAULT_MINIMAL_HUMIDITY, 100}

\* (total_time, last_water) pairs NVS can hold at first sight: fresh flash,
\* a watering 3600 s ago, and a stored timestamp ahead of the accumulator
NvsTimes == {<<0, 0>>, <<7200, 3600>>, <<3600, 7200>>}

\* durations a caller can pass to pump_run_timed
Durations == {0, PUMP_RUN_DURATION_MS, PUMP_MAX_DURATION_MS, PUMP_MAX_DURATION_MS + 1, 2 * PUMP_MAX_DURATION_MS}

WateringResults == {"WATER_OK", "WATER_PARTIAL", "WATER_NOT_NEEDED", "WATER_BATTERY_LOW", "WATER_RESERVOIR_LOW", "WATER_TOO_SOON", "WATER_SENSOR_ERROR", "WATER_PUMP_FAILED"}

WakeReasons == {"WAKE_TIMER", "WAKE_BUTTON", "WAKE_POWER_ON", "WAKE_UNKNOWN"}

VARIABLES
    pc,                 \* position of the firmware in the wake cycle
    caller,             \* who called pump_run_timed: "auto", "manual", "direct", "none"
    total_time,         \* NVS "total_time"
    last_water,         \* NVS "last_water"
    boot_count,         \* NVS "boot_count"
    min_humid,          \* NVS "min_humid"
    sensor_dry,         \* NVS "sensor_dry"
    sensor_wet,         \* NVS "sensor_wet"
    pump_running,       \* pump.cpp: pump_running (and the level of PIN_PUMP)
    millis,             \* Arduino millisecond counter
    start_time,         \* pump_run_timed: start_time
    req_ms,             \* pump_run_timed: the duration_ms argument as passed
    duration_ms,        \* pump_run_timed: duration_ms after the clamp
    pulses,             \* pump_until_max: pulses
    reached_max,        \* pump_until_max: reached_max
    current_humidity,   \* watering.cpp: current_humidity
    current_raw_sensor, \* watering.cpp: current_raw_sensor
    result,             \* value returned by the last watering call, "NONE" before
    sleep_sec,          \* timer wake-up programmed for the current deep sleep (s), 0 while awake
    raw_held,           \* buttons whose contact is closed (pin LOW), bounces aside
    gesture,            \* what the user will still do: the sets of held buttons to come
    state,              \* buttons.cpp: ButtonState state of button_wait_event, as returned
    press_start,        \* buttons.cpp: press_start of the hold being measured
    start,              \* buttons.cpp: start of the wait or combo loop in progress
    prefs_open,         \* storage.cpp: prefs is open (between prefs.begin and prefs.end)
    leds,               \* the LEDs that are lit
    current,            \* buttons.cpp: current of handle_humidity_adjustment
    last_press,         \* buttons.cpp: last_press of handle_humidity_adjustment
    bt,                 \* history of the current button interaction
    att                 \* history of the current watering attempt

nvs_vars == <<total_time, last_water, boot_count, min_humid, sensor_dry, sensor_wet>>
pump_vars == <<pump_running, start_time, req_ms, duration_ms>>
loop_vars == <<pulses, reached_max>>
cache_vars == <<current_humidity, current_raw_sensor>>
adj_vars == <<current, last_press>>
hw_vars == <<prefs_open, leds>>
btn_vars == <<raw_held, gesture, state, press_start, start, adj_vars, bt>>
vars == <<pc, caller, nvs_vars, pump_vars, millis, loop_vars, cache_vars, result, sleep_sec,
          btn_vars, hw_vars, att>>

\* ------------------------------------------------------------- collaborators

\* variant: the upper edge of the band one count too high
sensor_reading_valid_high_edge(raw_value) ==
    IF raw_value < 100 THEN FALSE
    ELSE IF raw_value > ADC_MAX_VALUE - 99 THEN FALSE
    ELSE TRUE

\* variant: the lower edge of the band one count too low
sensor_reading_valid_low_edge(raw_value) ==
    IF raw_value < 99 THEN FALSE
    ELSE IF raw_value > ADC_MAX_VALUE - 100 THEN FALSE
    ELSE TRUE

\* sensor.cpp: sensor_reading_valid
sensor_reading_valid(raw_value) ==
    IF raw_value < 100 THEN FALSE
    ELSE IF raw_value > ADC_MAX_VALUE - 100 THEN FALSE
    ELSE TRUE

\* variant: the calibration pair is always read as that of a sensor whose
\* count rises with the moisture
raw_to_humidity_not_inverted(raw, dry_value, wet_value) ==
    IF dry_value = wet_value THEN 50
    ELSE IF raw <= dry_value THEN 0
    ELSE IF raw >= wet_value THEN 100
    ELSE IF wet_value > dry_value
         THEN ((raw - dry_value) * 100) \div (wet_value - dry_value)
         ELSE 0

Clamp0to100(percent) ==
    IF percent < 0 THEN 0 ELSE IF percent > 100 THEN 100 ELSE percent

\* sensor.cpp: sensor_raw_to_humidity_percent, with the calibration pair read
\* from NVS; C integer division truncates, the operands here are non-negative
raw_to_humidity(raw, dry_value, wet_value) ==
    IF dry_value = wet_value THEN 50
    ELSE IF dry_value > wet_value
         THEN Clamp0to100(IF raw >= dry_value THEN 0
                          ELSE IF raw <= wet_value THEN 100
                          ELSE ((dry_value - raw) * 100) \div (dry_value - wet_value))
         ELSE Clamp0to100(IF raw <= dry_value THEN 0
                          ELSE IF raw >= wet_value THEN 100
                          ELSE ((raw - dry_value) * 100) \div (wet_value - dry_value))

sensor_raw_to_humidity_percent(raw) == raw_to_humidity(raw, sensor_dry, sensor_wet)

\* battery.cpp: battery_watering_allowed, on the voltage the reading delivers
battery_watering_allowed(voltage) == voltage >= BATTERY_CRITICAL_MV

\* battery.cpp: battery_get_state
battery_get_state(voltage) ==
    IF voltage < BATTERY_CRITICAL_MV THEN "BATTERY_CRITICAL"
    ELSE IF voltage < BATTERY_WARNING_MV THEN "BATTERY_WARNING"
    ELSE "BATTERY_OK"

\* storage getters used by the decision engine. storage_get_minimal_humidity
\* is called at watering.cpp:207 and defined in no file at hand: it is taken
\* to return the value stored under NVS_KEY_MINIMAL_HUMIDITY.
storage_get_minimal_humidity == min_humid
storage_get_last_watering_time == last_water
storage_get_persistent_time == total_time

\* variant: the time at the end of the coming sleep
get_current_time_sec_after_sleep == storage_get_persistent_time + MEASUREMENT_INTERVAL_SEC

\* watering.cpp: get_current_time_sec
get_current_time_sec == storage_get_persistent_time

\* variant: no guard against a stored timestamp ahead of the accumulator
interval_guard_missing(last_watering, current_time) == FALSE

\* watering.cpp: interval_elapsed and get_seconds_until_interval_elapsed, the
\* guard ahead of the unsigned subtraction
interval_guard(last_watering, current_time) == current_time < last_watering

\* the statement uint32_t elapsed = current_time - last_watering is executed
subtraction_reached(last_watering, current_time) ==
    last_watering # 0 /\ ~interval_guard(last_watering, current_time)

\* variant: the interval counts as elapsed after one measurement interval
interval_elapsed_at_measurement(last_watering, current_time) ==
    IF last_watering = 0 THEN TRUE
    ELSE IF current_time < last_watering THEN TRUE
    ELSE (current_time - last_watering) >= MEASUREMENT_INTERVAL_SEC

\* variant: the interval counts as elapsed one second late
interval_elapsed_at_strict(last_watering, current_time) ==
    IF last_watering = 0 THEN TRUE
    ELSE IF interval_guard(last_watering, current_time) THEN TRUE
    ELSE (current_time - last_watering) > MIN_WATERING_INTERVAL_SEC

\* watering.cpp: interval_elapsed, as a function of the two stored values.
\* The subtraction is reached with current_time >= last_watering only, where
\* the uint32_t difference is the difference of the numbers.
interval_elapsed_at(last_watering, current_time) ==
    IF last_watering = 0 THEN TRUE
    ELSE IF interval_guard(last_watering, current_time) THEN TRUE
    ELSE (current_time - last_watering) >= MIN_WATERING_INTERVAL_SEC

\* variant: the remaining time reads zero one second early
seconds_until_interval_elapsed_at_early(last_watering, current_time) ==
    IF last_watering = 0 THEN 0
    ELSE IF current_time < last_watering THEN 0
    ELSE IF (current_time - last_watering) >= MIN_WATERING_INTERVAL_SEC - 1 THEN 0
    ELSE MIN_WATERING_INTERVAL_SEC - (current_time - last_watering)

\* watering.cpp: get_seconds_until_interval_elapsed, as a function of the
\* two stored values
seconds_until_interval_elapsed_at(last_watering, current_time) ==
    IF last_watering = 0 THEN 0
    ELSE IF interval_guard(last_watering, current_time) THEN 0
    ELSE IF (current_time - last_watering) >= MIN_WATERING_INTERVAL_SEC THEN 0
    ELSE MIN_WATERING_INTERVAL_SEC - (current_time - last_watering)

interval_elapsed == interval_elapsed_at(storage_get_last_watering_time, get_current_time_sec)

get_seconds_until_interval_elapsed ==
    seconds_until_interval_elapsed_at(storage_get_last_watering_time, get_current_time_sec)

\* --------------------------------------------------------------------- state

\* History of one watering attempt, kept beside the program state to state
\* the properties below; the firmware never reads it.
\*   kind, force        the call: "auto" (watering_check_and_execute),
\*                      "manual" (watering_manual, with its force_override),
\*                      "direct" (pump_run_timed alone), "interval"
\*                      (interval_elapsed alone), "seconds"
\*                      (watering_get_seconds_until_allowed), "none"
\*   raw_valid, hum     validity and humidity of the sample taken at entry
\*   low, batt_ok       what the reservoir switch and the battery delivered
\*                      when the call was entered, read by the code or not
\*   interval_ok        interval_elapsed() at entry
\*   entry_last_water   NVS last_water at entry
\*   pump_calls         calls of pump_run_timed; pump_ons: calls of pump_on
\*   soaks, resamples   soak waits begun, sensor re-samples taken
\*   ts_writes          calls of storage_set_last_watering_time
\*   first_failed       the first call of pump_run_timed returned false
\*   aborted            a pump run was stopped by pump_emergency_stop
\*   gates_ok           every battery and reservoir reading of the pulse loop
\*                      passed and every re-sample was valid, so far
\*   first_reach        number of the first pulse whose re-sample was valid
\*                      and at or above DEFAULT_MAX_HUMIDITY, 0 if none yet
\*   run_iters          iterations of the run loop entered in the latest pump
\*                      activation; run_checks: battery readings taken in them
\*   run_batt_low       a battery reading inside the run loop was below
\*                      BATTERY_CRITICAL_MV
\*   returned           value returned by the latest call of pump_run_timed,
\*                      "NONE" before the first return
\*   seconds_until      value returned by watering_get_seconds_until_allowed
\*   underflow          current_time - last_watering was computed with
\*                      current_time < last_watering
\*   recheck_passes     re-checks before a next pulse at which the battery
\*                      reading allowed watering and the reservoir was not low
\*   recheck_failed     a re-check before a next pulse met a battery reading
\*                      below the threshold or a low reservoir
\*   kept_on_at         millis() - start_time at the latest evaluation of the
\*                      run loop that left the pump on, -1 from pump_on to
\*                      the first evaluation
\*   on_ms              the milliseconds the counter was advanced by since
\*                      pump_on, added up as plain numbers
\*   bad_resample_at    the calls of pump_run_timed made when a re-sample of the
\*                      pulse loop was outside the band of valid samples,
\*                      0 before
\*   wake_low           handle_timer_wake read the reservoir as low, and
\*   wake_critical      the battery state as BATTERY_CRITICAL, in this wake
\*                      cycle
NoAttempt ==
    [kind |-> "none", force |-> FALSE, raw_valid |-> FALSE, hum |-> -1,
     low |-> FALSE, batt_ok |-> FALSE, interval_ok |-> FALSE,
     entry_last_water |-> 0, pump_calls |-> 0, pump_ons |-> 0, soaks |-> 0,
     resamples |-> 0, ts_writes |-> 0, first_failed |-> FALSE,
     gates_ok |-> TRUE, first_reach |-> 0, kept_on_at |-> 0,
     aborted |-> FALSE, recheck_passes |-> 0, recheck_failed |-> FALSE,
     run_iters |-> 0, run_checks |-> 0, run_batt_low |-> FALSE,
     returned |-> "NONE", seconds_until |-> 0, underflow |-> FALSE, on_ms |-> 0,
     wake_low |-> FALSE, wake_critical |-> FALSE, bad_resample_at |-> 0]

\* buttons.cpp: ButtonState before any event: {BTN_NONE, BTN_EVENT_NONE, 0}
NoButtonState == [button |-> "BTN_NONE", event |-> "BTN_EVENT_NONE", press_duration_ms |-> 0]

\* History of one button interaction, kept beside the program state; the
\* firmware never reads it.
\*   bounces        reads of a pin that met a contact bounce
\*   bounced        the latest debounced read met a bounce; read_stable: the
\*                  level of the contact without the bounce (TRUE = closed),
\*                  read_ret: what the debounced read returned
\*   hold_broken    the hold loop of button_wait_event ended while the contact
\*                  was closed
\*   long_tags      executions of the long-press tagging step in the press
\*   crossed        a hold duration at or above BTN_LONG_PRESS_MS was measured
\*   retagged       the tagging step was executed on an event that was
\*                  BTN_EVENT_LONG_PRESS already
\*   unlatched      the event was BTN_EVENT_LONG_PRESS and was changed
\*   place          where the latest hold was classified: "event"
\*                  (button_wait_event), "combo" (three buttons), "adjust"
\*                  (main + wet), "select" (calibration selection)
\*   measured       the hold duration (ms) read at that classification
\*   outcome        "LONG" or "SHORT"; "RELEASED" when the three-button combo
\*                  was let go between the end of its loop and the test
\*                  after it; "NONE" before a classification
\*   action         what the interaction led to, "NONE" before
\*   co_held        the buttons whose contacts were closed at the detection of
\*                  a press by button_wait_event and at every later pass of
\*                  its hold loop
\*   overstayed     a pass of the selection loop of calibration mode found the
\*                  mode older than MODE_TIMEOUT_MS and stayed in it
\*   entry_target   the target humidity handle_humidity_adjustment read at its
\*                  start, -1 before
\*   presses        the presses it detected since, "raise" or "lower" each
\*   resolved_held  the buttons whose contacts were closed at a moment when the
\*                  interaction chose a mode or an action
\*   waited_ms      the milliseconds the counter was advanced by since
\*                  button_wait_event took its start time, and
\*   held_ms        since it took press_start, added up as plain numbers
\*   combo_ms       the hold of the three-button combo (ms) measured when
\*                  calibration mode was entered, -1 before
\*   cal_writes     calibration values stored in the interaction
NoButtonHistory ==
    [bounces |-> 0, bounced |-> FALSE, read_stable |-> FALSE, read_ret |-> FALSE,
     hold_broken |-> FALSE, long_tags |-> 0, crossed |-> FALSE, retagged |-> FALSE,
     unlatched |-> FALSE,
     place |-> "none", measured |-> 0, outcome |-> "NONE", action |-> "NONE",
     co_held |-> {}, overstayed |-> FALSE, entry_target |-> -1,
     presses |-> <<>>, resolved_held |-> {}, waited_ms |-> 0, held_ms |-> 0,
     combo_ms |-> -1, cal_writes |-> 0]

\* no button interaction in progress
NoInteraction ==
    /\ raw_held = {}
    /\ gesture = <<>>
    /\ state = NoButtonState
    /\ press_start = U32(0)
    /\ start = U32(0)
    /\ current = 0
    /\ last_press = U32(0)
    /\ bt = NoButtonHistory

Init ==
    /\ pc = "sleep"
    /\ caller = "none"
    /\ \E t \in NvsTimes : total_time = t[1] /\ last_water = t[2]
    /\ boot_count = 0
    /\ min_humid \in MinHumidities
    /\ sensor_dry = DEFAULT_SENSOR_DRY
    /\ sensor_wet = DEFAULT_SENSOR_WET
    /\ pump_running = FALSE
    /\ millis = U32(0)
    /\ start_time = U32(0)
    /\ req_ms = 0
    /\ duration_ms = 0
    /\ pulses = 0
    /\ reached_max = FALSE
    /\ current_humidity = -1
    /\ current_raw_sensor = 0
    /\ result = "NONE"
    /\ sleep_sec \in {ALERT_INTERVAL_SEC, MEASUREMENT_INTERVAL_SEC}
    /\ prefs_open = FALSE
    /\ leds = {}
    /\ NoInteraction
    /\ att = NoAttempt

NewAttempt(kind, force) ==
    [NoAttempt EXCEPT !.kind = kind, !.force = force, !.entry_last_water = last_water,
                      !.wake_low = att.wake_low, !.wake_critical = att.wake_critical]

\* ------------------------------------------------------------ storage.cpp

\* variant: the accumulator restarts from the interval at every boot
next_total_time_restart(stored_total_time, awake_duration_sec) ==
    MEASUREMENT_INTERVAL_SEC + awake_duration_sec

\* storage.cpp: storage_increment_boot_count, the new value of total_time
next_total_time(stored_total_time, awake_duration_sec) ==
    stored_total_time + MEASUREMENT_INTERVAL_SEC + awake_duration_sec

\* storage.cpp: storage_increment_boot_count. The definition has the single
\* parameter awake_duration_sec and always adds MEASUREMENT_INTERVAL_SEC;
\* setup passes 0 for the awake time.
storage_increment_boot_count(awake_duration_sec) ==
    /\ boot_count' = boot_count + 1
    /\ total_time' = next_total_time(total_time, awake_duration_sec)

\* ---------------------------------------------------------------- main.cpp

\* pump.cpp: pump_running (and the level of PIN_PUMP) after pump_on, after
\* pump_off and after pump_emergency_stop
pump_on == TRUE
pump_off == FALSE

\* variant: the emergency stop leaves the output as it is
pump_emergency_stop_kept_on == TRUE

pump_emergency_stop == FALSE

\* storage.cpp: storage_init opens prefs; the model takes prefs.begin to succeed
storage_init == TRUE

\* storage.cpp: storage_close, prefs after prefs.end()
storage_close == FALSE

Leds == {"green", "red"}

\* variant: the device goes to sleep before storage is closed and the LEDs
\* are switched off
enter_deep_sleep_calls_sleep_first ==
    <<"pump_emergency_stop", "esp_deep_sleep_start", "storage_close", "leds_all_off">>

\* main.cpp: enter_deep_sleep, its calls in their order; the last one does
\* not return
enter_deep_sleep_calls ==
    <<"pump_emergency_stop", "storage_close", "leds_all_off", "esp_deep_sleep_start">>

\* the hardware after a sequence of calls was run as far as it gets: nothing
\* runs after esp_deep_sleep_start
RECURSIVE run_calls(_, _)
run_calls(calls, hw) ==
    IF calls = <<>> \/ hw.asleep THEN hw
    ELSE run_calls(Tail(calls),
           CASE Head(calls) = "pump_emergency_stop" ->
                  [hw EXCEPT !.pump_running = @ /\ pump_emergency_stop]
             [] Head(calls) = "storage_close" -> [hw EXCEPT !.prefs_open = storage_close]
             [] Head(calls) = "leds_all_off" -> [hw EXCEPT !.leds = {}]
             [] Head(calls) = "esp_deep_sleep_start" -> [hw EXCEPT !.asleep = TRUE])

\* main.cpp: setup, from the wake-up to the dispatch on the wake reason.
\* Deep sleep lost the RAM: millis() restarts and pump_init switches the pump off.
WakeUpTo(reason, boots) ==
    /\ pc = "sleep"
    /\ reason # "WAKE_UNKNOWN" => boot_count < boots
    /\ millis' = U32(0)
    /\ pump_running' = FALSE
    /\ sleep_sec' = 0
    /\ prefs_open' = storage_init
    /\ leds' = {}
    /\ IF reason # "WAKE_UNKNOWN"
       THEN storage_increment_boot_count(0)
       ELSE UNCHANGED <<boot_count, total_time>>
    /\ pc' = CASE reason = "WAKE_TIMER" -> "timer_wake"
               [] reason = "WAKE_BUTTON" -> "button_wake"
               [] OTHER -> "pre_sleep"
    /\ UNCHANGED <<btn_vars, caller, last_water, min_humid, sensor_dry, sensor_wet,
                   start_time, req_ms, duration_ms, loop_vars, cache_vars, result, att>>

Wake(reason) == WakeUpTo(reason, MaxBoots)

\* variant: only a critical battery keeps the handler from watering
timer_wake_returns_early_battery_only(batt, reservoir_low) == batt = "BATTERY_CRITICAL"

\* main.cpp: handle_timer_wake, the two returns ahead of the call of
\* watering_check_and_execute
timer_wake_returns_early(batt, reservoir_low) ==
    IF batt = "BATTERY_CRITICAL" THEN TRUE
    ELSE IF reservoir_low THEN TRUE
    ELSE FALSE

\* main.cpp: handle_timer_wake, up to the call of watering_check_and_execute
handle_timer_wake ==
    /\ pc = "timer_wake"
    /\ \E reservoir_low \in BOOLEAN, voltage \in BatteryMvs :
          LET batt == battery_get_state(voltage)
          IN  /\ pc' = IF timer_wake_returns_early(batt, reservoir_low) THEN "pre_sleep"
                       ELSE "check_and_execute"
              /\ att' = [att EXCEPT !.wake_low = reservoir_low,
                                    !.wake_critical = (batt = "BATTERY_CRITICAL")]
    /\ UNCHANGED <<hw_vars, btn_vars, sleep_sec, caller, nvs_vars, pump_vars, millis, loop_vars, cache_vars, result>>

\* main.cpp: setup, the sleep duration chosen at the end of the wake cycle
sleep_seconds(reservoir_low, voltage) ==
    IF reservoir_low \/ battery_get_state(voltage) # "BATTERY_OK"
    THEN ALERT_INTERVAL_SEC
    ELSE MEASUREMENT_INTERVAL_SEC

\* main.cpp: the end of setup and enter_deep_sleep; the RAM (statics, millis)
\* is lost in deep sleep
enter_deep_sleep ==
    /\ pc = "pre_sleep"
    /\ \E reservoir_low \in BOOLEAN, voltage \in BatteryMvs :
          sleep_sec' = sleep_seconds(reservoir_low, voltage)
    /\ LET hw == run_calls(enter_deep_sleep_calls,
                            [pump_running |-> pump_running, prefs_open |-> prefs_open,
                             leds |-> leds, asleep |-> FALSE])
       IN  /\ hw.asleep
           /\ pump_running' = hw.pump_running
           /\ prefs_open' = hw.prefs_open
           /\ leds' = hw.leds
    /\ pc' = "sleep"
    /\ caller' = "none"
    /\ millis' = U32(0)
    /\ start_time' = U32(0)
    /\ req_ms' = 0
    /\ duration_ms' = 0
    /\ pulses' = 0
    /\ reached_max' = FALSE
    /\ current_humidity' = -1
    /\ current_raw_sensor' = 0
    /\ result' = "NONE"
    /\ att' = NoAttempt
    /\ UNCHANGED <<btn_vars, nvs_vars>>

\* ------------------------------------------------------------ watering.cpp

\* variant: a partial dosing does not count as a watering
timestamp_due_ok_only(r) == r = "WATER_OK"

\* watering.cpp: watering_check_and_execute, step 9: the results for which
\* the last-watering timestamp is written
timestamp_due(r) == r = "WATER_OK" \/ r = "WATER_PARTIAL"

\* watering.cpp: the return of watering_check_and_execute after the pulse
\* loop (steps 8-9)
check_and_execute_return(r, a) ==
    /\ result' = r
    /\ pc' = "pre_sleep"
    /\ caller' = "none"
    /\ IF timestamp_due(r)
       THEN /\ last_water' = get_current_time_sec
            /\ att' = [a EXCEPT !.ts_writes = @ + 1]
       ELSE /\ last_water' = last_water
            /\ att' = a

\* watering.cpp: pump_until_max, the return statement after the loop
pump_until_max_return(reached, a) ==
    check_and_execute_return(IF reached THEN "WATER_OK" ELSE "WATER_PARTIAL", a)

\* variant: the interval gate is missing
check_gates_no_interval(raw, reservoir_low, voltage) ==
    IF ~sensor_reading_valid(raw) THEN "WATER_SENSOR_ERROR"
    ELSE IF sensor_raw_to_humidity_percent(raw) >= storage_get_minimal_humidity THEN "WATER_NOT_NEEDED"
    ELSE IF reservoir_low THEN "WATER_RESERVOIR_LOW"
    ELSE IF ~battery_watering_allowed(voltage) THEN "WATER_BATTERY_LOW"
    ELSE "PASS"

\* variant: watering is skipped only strictly above the threshold
check_gates_strict(raw, reservoir_low, voltage) ==
    IF ~sensor_reading_valid(raw) THEN "WATER_SENSOR_ERROR"
    ELSE IF sensor_raw_to_humidity_percent(raw) > storage_get_minimal_humidity THEN "WATER_NOT_NEEDED"
    ELSE IF reservoir_low THEN "WATER_RESERVOIR_LOW"
    ELSE IF ~battery_watering_allowed(voltage) THEN "WATER_BATTERY_LOW"
    ELSE IF ~interval_elapsed THEN "WATER_TOO_SOON"
    ELSE "PASS"

\* variant: the battery gate ahead of the reservoir gate
check_gates_battery_first(raw, reservoir_low, voltage) ==
    IF ~sensor_reading_valid(raw) THEN "WATER_SENSOR_ERROR"
    ELSE IF sensor_raw_to_humidity_percent(raw) >= storage_get_minimal_humidity THEN "WATER_NOT_NEEDED"
    ELSE IF ~battery_watering_allowed(voltage) THEN "WATER_BATTERY_LOW"
    ELSE IF reservoir_low THEN "WATER_RESERVOIR_LOW"
    ELSE IF ~interval_elapsed THEN "WATER_TOO_SOON"
    ELSE "PASS"

\* watering.cpp: the five gates of watering_check_and_execute in their order;
\* "PASS" when none of them fails
check_gates(raw, reservoir_low, voltage) ==
    IF ~sensor_reading_valid(raw) THEN "WATER_SENSOR_ERROR"
    ELSE IF sensor_raw_to_humidity_percent(raw) >= storage_get_minimal_humidity THEN "WATER_NOT_NEEDED"
    ELSE IF reservoir_low THEN "WATER_RESERVOIR_LOW"
    ELSE IF ~battery_watering_allowed(voltage) THEN "WATER_BATTERY_LOW"
    ELSE IF ~interval_elapsed THEN "WATER_TOO_SOON"
    ELSE "PASS"

\* watering.cpp: watering_check_and_execute, steps 1-7
watering_check_and_execute ==
    /\ pc = "check_and_execute"
    /\ \E raw \in RawSamples, reservoir_low \in BOOLEAN, voltage \in BatteryMvs :
          LET g == check_gates(raw, reservoir_low, voltage)
              a == [NewAttempt("auto", FALSE) EXCEPT
                       !.raw_valid = sensor_reading_valid(raw),
                       !.hum = sensor_raw_to_humidity_percent(raw),
                       !.low = reservoir_low,
                       !.batt_ok = battery_watering_allowed(voltage),
                       !.interval_ok = interval_elapsed]
          IN  /\ current_raw_sensor' = raw
              /\ current_humidity' = IF sensor_reading_valid(raw)
                                     THEN sensor_raw_to_humidity_percent(raw)
                                     ELSE current_humidity
              /\ att' = a
              /\ IF g = "PASS"
                 THEN /\ pc' = "pulse_loop"
                      /\ pulses' = 0
                      /\ reached_max' = FALSE
                      /\ result' = "NONE"
                 ELSE /\ pc' = "pre_sleep"
                      /\ result' = g
                      /\ UNCHANGED loop_vars
    /\ UNCHANGED <<hw_vars, btn_vars, sleep_sec, caller, nvs_vars, pump_vars, millis>>

\* variant: one pulse more than the budget
pulses_left_inclusive(p) == p <= MAX_PUMP_PULSES

\* watering.cpp: pump_until_max, the while condition
pulses_left(p) == p < MAX_PUMP_PULSES

\* variant: the target counts as reached only above the upper bound
target_reached_strict(humidity) == humidity > DEFAULT_MAX_HUMIDITY

\* watering.cpp: pump_until_max, the target test after a re-sample
target_reached(humidity) == humidity >= DEFAULT_MAX_HUMIDITY

\* variant: every failed pulse is the pump error
failure_is_pump_error_always(p) == TRUE

\* variant: a failed first pulse only ends the loop
failure_is_pump_error_never(p) == FALSE

\* watering.cpp: pump_until_max, a failed pump_run_timed is the error
\* WATER_PUMP_FAILED when no pulse was counted yet, else it ends the loop
failure_is_pump_error(p) == p = 0

\* watering.cpp: pump_until_max, the while condition and the call of pump_run_timed
pump_until_max ==
    /\ pc = "pulse_loop"
    /\ IF pulses_left(pulses)
       THEN /\ pc' = "pump_call"
            /\ caller' = "auto"
            /\ req_ms' = PUMP_RUN_DURATION_MS
            /\ UNCHANGED <<last_water, result, att>>
       ELSE /\ pump_until_max_return(reached_max, att)
            /\ UNCHANGED req_ms
    /\ UNCHANGED <<hw_vars, btn_vars, sleep_sec, total_time, boot_count, min_humid, sensor_dry, sensor_wet,
                   pump_running, start_time, duration_ms, millis, loop_vars, cache_vars>>

\* watering.cpp: pump_until_max, from the return of pump_run_timed to the soak wait
pump_until_max_pulsed(pump_success, a) ==
    IF ~pump_success
    THEN /\ IF failure_is_pump_error(pulses)
            THEN check_and_execute_return("WATER_PUMP_FAILED", a)
            ELSE pump_until_max_return(reached_max, a)
         /\ UNCHANGED loop_vars
    ELSE /\ pulses' = pulses + 1
         /\ pc' = "soak"
         /\ att' = [a EXCEPT !.soaks = @ + 1]
         /\ UNCHANGED <<hw_vars, caller, reached_max, last_water, result>>

\* variant: only the battery is re-checked between two pulses
recheck_stops_battery_only(voltage, reservoir_low) == ~battery_watering_allowed(voltage)

\* watering.cpp: pump_until_max, the safety re-check before the next pulse:
\* the battery first, then the reservoir; either failing leaves the loop
recheck_stops(voltage, reservoir_low) ==
    IF ~battery_watering_allowed(voltage) THEN TRUE
    ELSE IF reservoir_low THEN TRUE
    ELSE FALSE

\* watering.cpp: pump_until_max, from the end of the soak wait to the next
\* evaluation of the while condition
pump_until_max_resample ==
    /\ pc = "soak"
    /\ millis' = U32Add(millis, SOAK_WAIT_TIME_MS)
    /\ \E raw \in RawSamples, voltage \in BatteryMvs, reservoir_low \in BOOLEAN :
          LET valid == sensor_reading_valid(raw)
              hum == sensor_raw_to_humidity_percent(raw)
              reach == valid /\ hum >= DEFAULT_MAX_HUMIDITY
              rechecked == valid /\ ~reach
              pass == voltage >= BATTERY_CRITICAL_MV /\ ~reservoir_low
              a == [att EXCEPT !.resamples = @ + 1,
                               !.bad_resample_at =
                                   IF raw < 100 \/ raw > ADC_MAX_VALUE - 100
                                   THEN att.pump_calls ELSE @,
                               !.first_reach = IF @ = 0 /\ reach THEN pulses ELSE @,
                               !.gates_ok = @ /\ valid
                                   /\ (reach \/ (battery_watering_allowed(voltage) /\ ~reservoir_low)),
                               !.recheck_passes = IF rechecked /\ pass THEN @ + 1 ELSE @,
                               !.recheck_failed = @ \/ (rechecked /\ ~pass)]
          IN  IF ~valid
              THEN /\ pump_until_max_return(reached_max, a)
                   /\ UNCHANGED <<current_humidity, reached_max>>
              ELSE /\ current_humidity' = hum
                   /\ IF target_reached(hum)
                      THEN /\ reached_max' = TRUE
                           /\ pump_until_max_return(TRUE, a)
                      ELSE /\ reached_max' = reached_max
                           /\ IF recheck_stops(voltage, reservoir_low)
                              THEN pump_until_max_return(reached_max, a)
                              ELSE /\ pc' = "pulse_loop"
                                   /\ att' = a
                                   /\ UNCHANGED <<hw_vars, caller, last_water, result>>
    /\ UNCHANGED <<hw_vars, btn_vars, sleep_sec, total_time, boot_count, min_humid, sensor_dry, sensor_wet,
                   pump_vars, pulses, current_raw_sensor>>

\* variant: force_override skips the battery gate as well
manual_gates_force_skips_battery(force_override, reservoir_low, voltage) ==
    IF reservoir_low THEN "WATER_RESERVOIR_LOW"
    ELSE IF ~force_override /\ ~battery_watering_allowed(voltage) THEN "WATER_BATTERY_LOW"
    ELSE IF ~force_override /\ ~interval_elapsed THEN "WATER_TOO_SOON"
    ELSE "PASS"

\* variant: force_override is not looked at
manual_gates_force_ignored(force_override, reservoir_low, voltage) ==
    IF reservoir_low THEN "WATER_RESERVOIR_LOW"
    ELSE IF ~battery_watering_allowed(voltage) THEN "WATER_BATTERY_LOW"
    ELSE IF ~interval_elapsed THEN "WATER_TOO_SOON"
    ELSE "PASS"

\* watering.cpp: watering_manual, the three gates in their order
manual_gates(force_override, reservoir_low, voltage) ==
    IF reservoir_low THEN "WATER_RESERVOIR_LOW"
    ELSE IF ~battery_watering_allowed(voltage) THEN "WATER_BATTERY_LOW"
    ELSE IF ~force_override /\ ~interval_elapsed THEN "WATER_TOO_SOON"
    ELSE "PASS"

\* watering.cpp: watering_manual, up to the call of pump_run_timed
watering_manual(force_override) ==
    /\ pc = "button_wake"
    /\ \E reservoir_low \in BOOLEAN, voltage \in BatteryMvs :
          LET g == manual_gates(force_override, reservoir_low, voltage)
              a == [NewAttempt("manual", force_override) EXCEPT
                       !.low = reservoir_low,
                       !.batt_ok = battery_watering_allowed(voltage),
                       !.interval_ok = interval_elapsed]
          IN  /\ att' = a
              /\ IF g = "PASS"
                 THEN /\ pc' = "pump_call"
                      /\ caller' = "manual"
                      /\ req_ms' = PUMP_RUN_DURATION_MS
                      /\ result' = "NONE"
                 ELSE /\ pc' = "pre_sleep"
                      /\ result' = g
                      /\ UNCHANGED <<hw_vars, caller, req_ms>>
    /\ UNCHANGED <<hw_vars, btn_vars, sleep_sec, nvs_vars, pump_running, start_time, duration_ms, millis,
                   loop_vars, cache_vars>>

\* variant: the timestamp is written whatever pump_run_timed returned
manual_timestamp_due_always(pump_success) == TRUE

\* watering.cpp: watering_manual, the timestamp is written on the way that
\* the return for a failed pump_run_timed does not take
manual_timestamp_due(pump_success) == pump_success

\* watering.cpp: watering_manual, from the return of pump_run_timed
watering_manual_pumped(pump_success, a) ==
    /\ pc' = "pre_sleep"
    /\ caller' = "none"
    /\ UNCHANGED loop_vars
    /\ result' = IF ~pump_success THEN "WATER_PUMP_FAILED" ELSE "WATER_OK"
    /\ IF manual_timestamp_due(pump_success)
       THEN /\ last_water' = get_current_time_sec
            /\ att' = [a EXCEPT !.ts_writes = @ + 1]
       ELSE /\ last_water' = last_water
            /\ att' = a

\* buttons.cpp: buttons_handle_interaction, every outcome of a button wake
\* other than the long press of the main button (no watering call); the
\* LEDs are as the interaction left them
buttons_no_watering ==
    /\ pc = "button_wake"
    /\ pc' = "pre_sleep"
    /\ leds' \in SUBSET Leds
    /\ UNCHANGED <<prefs_open, btn_vars, sleep_sec, caller, nvs_vars, pump_vars, millis, loop_vars, cache_vars, result, att>>

\* ---------------------------------------------------------------- pump.cpp

\* a direct caller of pump_run_timed: only the returned value is kept
direct_pumped(pump_success, a) ==
    /\ pc' = "direct_done"
    /\ caller' = "none"
    /\ result' = IF pump_success THEN "TRUE" ELSE "FALSE"
    /\ att' = a
    /\ UNCHANGED <<hw_vars, loop_vars, last_water>>

\* the return of pump_run_timed into the function that called it
pump_run_timed_return(pump_success, a) ==
    CASE caller = "auto" -> pump_until_max_pulsed(pump_success, a)
      [] caller = "manual" -> watering_manual_pumped(pump_success, a)
      [] OTHER -> direct_pumped(pump_success, a)

\* variant: the requested duration is taken as it comes
clamp_duration_missing(d) == d

\* pump.cpp: pump_run_timed, the clamp of the requested duration
clamp_duration(d) ==
    IF d > PUMP_MAX_DURATION_MS THEN PUMP_MAX_DURATION_MS ELSE d

\* pump.cpp: pump_run_timed, the condition of the run loop
run_loop_continues(elapsed, d) == U32Less(elapsed, d)

\* variant: the run loop only waits for the duration
run_check_fails_never(voltage) == FALSE

\* pump.cpp: pump_run_timed, the battery check inside the run loop
run_check_fails(voltage) == ~battery_watering_allowed(voltage)

\* pump.cpp: pump_run_timed, from the entry to the first evaluation of the
\* run loop: clamp, battery check, pump_on, start_time
pump_run_timed ==
    /\ pc = "pump_call"
    /\ duration_ms' = clamp_duration(req_ms)
    /\ \E voltage \in BatteryMvs :
          IF ~battery_watering_allowed(voltage)
          THEN /\ pump_run_timed_return(FALSE, [att EXCEPT !.pump_calls = @ + 1, !.gates_ok = FALSE,
                                                        !.first_failed = (att.pump_calls = 0),
                                                        !.returned = "FALSE"])
               /\ UNCHANGED <<pump_running, start_time>>
          ELSE /\ pump_running' = pump_on
               /\ start_time' = millis
               /\ pc' = "pump_run"
               /\ att' = [att EXCEPT !.pump_calls = @ + 1, !.pump_ons = @ + 1, !.kept_on_at = -1,
                                      !.run_iters = 0, !.run_checks = 0, !.on_ms = 0]
               /\ UNCHANGED <<hw_vars, caller, loop_vars, last_water, result>>
    /\ UNCHANGED <<hw_vars, btn_vars, sleep_sec, total_time, boot_count, min_humid, sensor_dry, sensor_wet,
                   req_ms, millis, cache_vars>>

\* pump.cpp: pump_run_timed, one evaluation of the run loop: the loop
\* condition on millis() - start_time, the battery check and yield (during
\* which the millisecond counter advances), or pump_off after the loop
pump_run_loop ==
    /\ pc = "pump_run"
    /\ LET elapsed == U32Sub(millis, start_time)
       IN  IF run_loop_continues(elapsed, duration_ms)
           THEN \E voltage \in BatteryMvs :
                   LET a == [att EXCEPT !.run_iters = @ + 1, !.run_checks = @ + 1,
                                        !.run_batt_low = @ \/ voltage < BATTERY_CRITICAL_MV]
                   IN  IF run_check_fails(voltage)
                       THEN /\ pump_running' = pump_emergency_stop
                            /\ millis' = millis
                            /\ pump_run_timed_return(FALSE, [a EXCEPT !.gates_ok = FALSE, !.aborted = TRUE,
                                                                 !.first_failed = (att.pump_calls = 1),
                                                                 !.returned = "FALSE"])
                       ELSE /\ \E dt \in TickSteps :
                                 /\ millis' = U32Add(millis, dt)
                                 /\ att' = [a EXCEPT !.kept_on_at = elapsed[2], !.on_ms = @ + dt]
                            /\ UNCHANGED <<hw_vars, pc, caller, pump_running, loop_vars, last_water, result>>
           ELSE /\ pump_running' = pump_off
                /\ millis' = millis
                /\ pump_run_timed_return(TRUE, [att EXCEPT !.returned = "TRUE"])
    /\ UNCHANGED <<hw_vars, btn_vars, sleep_sec, total_time, boot_count, min_humid, sensor_dry, sensor_wet,
                   start_time, req_ms, duration_ms, cache_vars>>

\* a direct call pump_run_timed(d) for a duration of the caller's choice
pump_run_timed_direct(d) ==
    /\ pc = "direct"
    /\ pc' = "pump_call"
    /\ caller' = "direct"
    /\ req_ms' = d
    /\ att' = NewAttempt("direct", FALSE)
    /\ UNCHANGED <<hw_vars, btn_vars, sleep_sec, nvs_vars, pump_running, start_time, duration_ms, millis,
                   loop_vars, cache_vars, result>>

\* ------------------------------------------------------------ specifications

Next ==
    \/ \E reason \in WakeReasons : Wake(reason)
    \/ handle_timer_wake
    \/ watering_check_and_execute
    \/ pump_until_max
    \/ pump_until_max_resample
    \/ \E force_override \in BOOLEAN : watering_manual(force_override)
    \/ buttons_no_watering
    \/ pump_run_timed
    \/ pump_run_loop
    \/ enter_deep_sleep

Spec == Init /\ [][Next]_vars

\* wake cycles followed from a fresh flash: enough for a second watering one
\* minimum interval after the first, and for a wake cycle after it
MaxCommitBoots == 5

\* a device with a fresh flash: no watering recorded, the accumulator at zero
InitFresh ==
    /\ pc = "sleep"
    /\ caller = "none"
    /\ total_time = 0 /\ last_water = 0 /\ boot_count = 0
    /\ min_humid = DEFAULT_MINIMAL_HUMIDITY
    /\ sensor_dry = DEFAULT_SENSOR_DRY
    /\ sensor_wet = DEFAULT_SENSOR_WET
    /\ pump_running = FALSE
    /\ millis = U32(0)
    /\ start_time = U32(0) /\ req_ms = 0 /\ duration_ms = 0
    /\ pulses = 0 /\ reached_max = FALSE
    /\ current_humidity = -1 /\ current_raw_sensor = 0
    /\ result = "NONE"
    /\ sleep_sec = MEASUREMENT_INTERVAL_SEC
    /\ prefs_open = FALSE
    /\ leds = {}
    /\ NoInteraction
    /\ att = NoAttempt

NextCommits ==
    \/ \E reason \in WakeReasons : WakeUpTo(reason, MaxCommitBoots)
    \/ handle_timer_wake
    \/ watering_check_and_execute
    \/ pump_until_max
    \/ pump_until_max_resample
    \/ \E force_override \in BOOLEAN : watering_manual(force_override)
    \/ buttons_no_watering
    \/ pump_run_timed
    \/ pump_run_loop
    \/ enter_deep_sleep

\* the wake cycles of a device from its first power-on
SpecCommits == InitFresh /\ [][NextCommits]_vars

\* millis() values at which a direct call of pump_run_timed can start,
\* the last ones shortly before the counter wraps
MillisStarts == {U32(0), U32(500), <<HALF - 1, HALF - 2500>>, <<HALF - 1, HALF - 1>>}

InitPumpAt ==
    /\ pc = "direct"
    /\ caller = "none"
    /\ total_time = 0 /\ last_water = 0 /\ boot_count = 0
    /\ min_humid = DEFAULT_MINIMAL_HUMIDITY
    /\ sensor_dry = DEFAULT_SENSOR_DRY
    /\ sensor_wet = DEFAULT_SENSOR_WET
    /\ pump_running = FALSE
    /\ millis \in MillisStarts
    /\ start_time = U32(0) /\ req_ms = 0 /\ duration_ms = 0
    /\ pulses = 0 /\ reached_max = FALSE
    /\ current_humidity = -1 /\ current_raw_sensor = 0
    /\ result = "NONE"
    /\ sleep_sec = 0
    /\ prefs_open = TRUE
    /\ leds = {}
    /\ NoInteraction
    /\ att = NoAttempt

NextPump ==
    \/ \E d \in Durations : pump_run_timed_direct(d)
    \/ pump_run_timed
    \/ pump_run_loop

SpecPump == InitPumpAt /\ [][NextPump]_vars

\* last-watering timestamps NVS can hold: never watered, the smallest
\* timestamp, after one and after three measurement intervals, and a large one
LastTimes == {0, 1, MEASUREMENT_INTERVAL_SEC, 3 * MEASUREMENT_INTERVAL_SEC, 2000000000}

\* distances of the persistent time from the stored timestamp (s): behind it,
\* on it, around MIN_WATERING_INTERVAL_SEC and beyond
TimeOffsets ==
    {-MEASUREMENT_INTERVAL_SEC, -1, 0, 1, MEASUREMENT_INTERVAL_SEC,
     MIN_WATERING_INTERVAL_SEC - 2, MIN_WATERING_INTERVAL_SEC - 1, MIN_WATERING_INTERVAL_SEC,
     MIN_WATERING_INTERVAL_SEC + 1, 2 * MIN_WATERING_INTERVAL_SEC}

\* the interval queries of watering.cpp on stored values of any kind
InitInterval ==
    /\ pc = "query"
    /\ caller = "none"
    /\ last_water \in LastTimes
    /\ \E d \in TimeOffsets : total_time = last_water + d /\ total_time >= 0
    /\ boot_count = 0
    /\ min_humid = DEFAULT_MINIMAL_HUMIDITY
    /\ sensor_dry = DEFAULT_SENSOR_DRY
    /\ sensor_wet = DEFAULT_SENSOR_WET
    /\ pump_running = FALSE
    /\ millis = U32(0)
    /\ start_time = U32(0) /\ req_ms = 0 /\ duration_ms = 0
    /\ pulses = 0 /\ reached_max = FALSE
    /\ current_humidity = -1 /\ current_raw_sensor = 0
    /\ result = "NONE"
    /\ sleep_sec = 0
    /\ prefs_open = TRUE
    /\ leds = {}
    /\ NoInteraction
    /\ att = NoAttempt

\* watering.cpp: a call of interval_elapsed (watering_is_allowed with the
\* reservoir and battery gates passing)
interval_elapsed_call ==
    /\ pc = "query"
    /\ pc' = "query_done"
    /\ result' = IF interval_elapsed THEN "TRUE" ELSE "FALSE"
    /\ att' = [NewAttempt("interval", FALSE) EXCEPT
                  !.interval_ok = interval_elapsed,
                  !.underflow = subtraction_reached(last_water, total_time)
                                    /\ total_time < last_water]
    /\ UNCHANGED <<hw_vars, btn_vars, sleep_sec, caller, nvs_vars, pump_vars, millis, loop_vars, cache_vars>>

\* watering.cpp: watering_get_seconds_until_allowed
watering_get_seconds_until_allowed ==
    /\ pc = "query"
    /\ pc' = "query_done"
    /\ att' = [NewAttempt("seconds", FALSE) EXCEPT
                  !.seconds_until = get_seconds_until_interval_elapsed,
                  !.underflow = subtraction_reached(last_water, total_time)
                                    /\ total_time < last_water]
    /\ UNCHANGED <<hw_vars, btn_vars, sleep_sec, caller, nvs_vars, pump_vars, millis, loop_vars, cache_vars, result>>

NextInterval ==
    \/ interval_elapsed_call
    \/ watering_get_seconds_until_allowed

SpecInterval == InitInterval /\ [][NextInterval]_vars

\* ------------------------------------------------------------- buttons.cpp

EVENT_TIMEOUT_MS == 5000
CAL_TIMEOUT_MS == 10000
POLL_DELAY_MS == 10
LONG_FEEDBACK_MS == 50
SENSOR_CALIBRATION_TIME_MS == 15000

\* leds.cpp: led_show_calibration_confirm, three phases of 200 ms
CAL_CONFIRM_MS == 3 * 200

Buttons == {"BTN_MAIN", "BTN_CAL_WET", "BTN_CAL_DRY"}

\* the order in which buttons_full_combo_pressed and the main + wet test of
\* buttons_handle_interaction read the pins
FullCombo == <<"BTN_MAIN", "BTN_CAL_WET", "BTN_CAL_DRY">>
AdjustCombo == <<"BTN_MAIN", "BTN_CAL_WET">>

\* contact bounces met by the reads of one interaction
MaxBounces == 1

\* a hold of a single button is followed no further than this (ms, as the
\* loop that waits for its release measures it): a button held on beyond it
\* keeps that loop where it is
MaxHoldMs == 2300

\* after the three-button combo the buttons are released within this time of
\* the combo's detection (ms)
MaxComboMs == 3000

\* time (ms) that passes between the reading of a hold's start and the first
\* pass of the loop that measures it; the values bring the measured hold
\* durations onto BTN_LONG_PRESS_MS and one below, for the loops that read
\* one or two pins in a pass and for the loop that reads three
Latencies == {0, 29, 30}
ComboLatencies == {0, 89, 90}

\* passes of a polling loop during which no pin reads LOW
WaitStretch == {250, 500}

\* when, within a hold that a loop measures, the user changes the buttons or
\* a contact bounces (ms since the start of the hold, from .. to): early in
\* the hold or around BTN_LONG_PRESS_MS
HoldWindows == {<<0, 120>>, <<1900, 2130>>}

\* what the user does with the three buttons from the wake-up on: the sets
\* of held buttons, one after the other; how long each lasts is free
Gestures ==
    {<<{}>>,
     <<{"BTN_MAIN"}, {}>>,
     <<{}, {"BTN_MAIN"}, {}>>,
     <<{"BTN_CAL_WET"}, {}>>,
     <<{"BTN_CAL_DRY"}, {}>>,
     <<{"BTN_CAL_WET", "BTN_CAL_DRY"}, {}>>,
     <<{"BTN_MAIN", "BTN_CAL_WET"}, {}>>,
     <<{"BTN_MAIN", "BTN_CAL_WET"}, {"BTN_MAIN"}, {}>>,
     <<{"BTN_MAIN", "BTN_CAL_WET", "BTN_CAL_DRY"}, {}, {"BTN_CAL_WET"}, {}>>,
     <<{"BTN_MAIN", "BTN_CAL_WET", "BTN_CAL_DRY"}, {}, {"BTN_CAL_DRY"}, {}>>,
     <<{"BTN_MAIN", "BTN_CAL_WET", "BTN_CAL_DRY"}, {"BTN_CAL_WET", "BTN_CAL_DRY"}, {}>>}

\* a uint32_t below 2^31 as a number
U32Val(x) == x[1] * HALF + x[2]

Min(a, b) == IF a < b THEN a ELSE b
Max(a, b) == IF a > b THEN a ELSE b

\* positions of buttons_handle_interaction and the functions it calls
ButtonPcs ==
    {"button_session", "combo_hold", "combo_confirm", "adjust_check", "adjust_hold",
     "wait_event", "hold", "dispatch", "cal_release", "cal_wait", "cal_dry_check",
     "select_wet", "select_dry", "calibrated_wet", "calibrated_dry",
     "humidity_adjust", "adjust_release", "adjust_loop", "adjust_dry_check",
     "release_wet", "release_dry"}

\* time since the start of the hold that the loop in progress measures, 0
\* outside these loops
hold_elapsed ==
    CASE pc \in {"combo_hold", "combo_confirm", "adjust_hold", "adjust_release"}
             -> U32Val(U32Sub(millis, start))
      [] pc \in {"hold", "select_wet", "select_dry"} -> U32Val(U32Sub(millis, press_start))
      [] pc \in {"release_wet", "release_dry"} -> U32Val(U32Sub(millis, last_press))
      [] OTHER -> 0

env_may_act == \E w \in HoldWindows : w[1] <= hold_elapsed /\ hold_elapsed <= w[2]

\* the user presses or releases buttons: the next step of the gesture
user_acts ==
    /\ pc \in ButtonPcs
    /\ env_may_act
    /\ gesture # <<>>
    /\ raw_held' = Head(gesture)
    /\ gesture' = Tail(gesture)
    /\ UNCHANGED <<hw_vars, pc, caller, nvs_vars, pump_vars, millis, loop_vars, cache_vars,
                   result, sleep_sec, state, press_start, start, bt, adj_vars, att>>

\* buttons.cpp: read_button_debounced, on the two samples of the pin
\* (TRUE = LOW); the second is taken only after a LOW first one
read_button_debounced(first_low, second_low) ==
    IF first_low THEN second_low ELSE FALSE

\* buttons.cpp: read_button_debounced, the time it takes
debounce_cost(first_low) == IF first_low THEN BTN_DEBOUNCE_MS ELSE 0

\* the level a sample of button's pin finds: the level of the contact, or
\* the opposite when a bounce of that pin falls on this sample
first_sample(button, bounce_on, sample) ==
    (button \in raw_held) # (bounce_on = button /\ sample = "first")

second_sample(button, bounce_on, sample) ==
    (button \in raw_held) # (bounce_on = button /\ sample = "second")

\* buttons.cpp: button_is_pressed
button_is_pressed(button, bounce_on, sample) ==
    read_button_debounced(first_sample(button, bounce_on, sample),
                          second_sample(button, bounce_on, sample))

button_read_cost(button, bounce_on, sample) ==
    debounce_cost(first_sample(button, bounce_on, sample))

\* a read no bounce falls on
pressed(button) == button_is_pressed(button, "none", "first")

\* the bounces a read of button can meet: none, or one shorter than
\* BTN_DEBOUNCE_MS, which falls on one of the two samples
BounceOptions(button) ==
    {<<"none", "first">>}
        \cup (IF bt.bounces < MaxBounces /\ env_may_act
              THEN {<<button, "first">>}
                       \cup (IF button \in raw_held THEN {<<button, "second">>} ELSE {})
              ELSE {})

\* the history after a read of button that returned ret
read_noted(h, button, bounce_on, ret) ==
    IF bounce_on = "none" THEN h
    ELSE [h EXCEPT !.bounces = @ + 1, !.bounced = TRUE,
                   !.read_stable = button \in raw_held, !.read_ret = ret]

\* buttons.cpp: a && chain of button_is_pressed calls
all_pressed(chain) == \A i \in DOMAIN chain : pressed(chain[i])

RECURSIVE and_chain_cost(_)
and_chain_cost(chain) ==
    IF chain = <<>> THEN 0
    ELSE IF pressed(Head(chain))
         THEN BTN_DEBOUNCE_MS + and_chain_cost(Tail(chain))
         ELSE 0

\* buttons.cpp: a || chain of button_is_pressed calls
any_pressed(chain) == \E i \in DOMAIN chain : pressed(chain[i])

or_chain_cost(chain) == IF any_pressed(chain) THEN BTN_DEBOUNCE_MS ELSE 0

\* the history after a hold was classified
classified(h, place, measured, long) ==
    [h EXCEPT !.place = place, !.measured = measured,
              !.outcome = IF long THEN "LONG" ELSE "SHORT"]

\* buttons.cpp: the long-press test of the two combo loops
combo_long(held) == ~U32Less(held, BTN_LONG_PRESS_MS)

\* buttons.cpp: buttons_handle_interaction, the initial debounce and the
\* test for the three-button combo
buttons_handle_interaction ==
    /\ pc = "button_session"
    /\ LET t1 == U32Add(millis, BTN_DEBOUNCE_MS + and_chain_cost(FullCombo))
       IN  IF all_pressed(FullCombo)
           THEN /\ start' = t1
                /\ \E j \in ComboLatencies : millis' = U32Add(t1, j)
                /\ pc' = "combo_hold"
           ELSE /\ start' = start
                /\ millis' = t1
                /\ pc' = "adjust_check"
    /\ UNCHANGED <<hw_vars, caller, nvs_vars, pump_vars, loop_vars, cache_vars, result, sleep_sec,
                   raw_held, gesture, state, press_start, bt, adj_vars, att>>

\* buttons.cpp: buttons_handle_interaction, one evaluation of the loop that
\* waits for the three-button long press
full_combo_hold ==
    /\ pc = "combo_hold"
    /\ LET t1 == U32Add(millis, and_chain_cost(FullCombo))
       IN  IF all_pressed(FullCombo) /\ ~combo_long(U32Sub(t1, start))
           THEN /\ millis' = U32Add(t1, POLL_DELAY_MS)
                /\ pc' = pc
           ELSE /\ millis' = t1
                /\ pc' = "combo_confirm"
    /\ UNCHANGED <<hw_vars, caller, nvs_vars, pump_vars, loop_vars, cache_vars, result, sleep_sec,
                   btn_vars, att>>

\* buttons.cpp: buttons_handle_interaction, the test after that loop:
\* calibration mode is entered when the time is up and the combo still reads
\* as pressed
full_combo_confirm ==
    /\ pc = "combo_confirm"
    /\ LET held == U32Sub(millis, start)
           enter == combo_long(held) /\ all_pressed(FullCombo)
           cost == IF combo_long(held) THEN and_chain_cost(FullCombo) ELSE 0
       IN  /\ bt' = IF combo_long(held) /\ ~enter
                   THEN [bt EXCEPT !.place = "combo", !.measured = U32Val(held),
                                   !.outcome = "RELEASED"]
                   ELSE [classified(bt, "combo", U32Val(held), enter) EXCEPT
                            !.resolved_held = IF enter THEN @ \cup raw_held ELSE @,
                            !.combo_ms = IF enter THEN U32Val(held) ELSE @]
           /\ IF enter
              THEN /\ millis' = U32Add(millis, cost + CAL_CONFIRM_MS)
                   /\ pc' = "cal_release"
              ELSE /\ millis' = U32Add(millis, cost)
                   /\ pc' = "adjust_check"
    /\ UNCHANGED <<hw_vars, caller, nvs_vars, pump_vars, loop_vars, cache_vars, result, sleep_sec,
                   raw_held, gesture, state, press_start, start, adj_vars, att>>

\* buttons.cpp: buttons_handle_interaction, the test for main + wet; without
\* the combo button_wait_event is entered
adjust_combo_check ==
    /\ pc = "adjust_check"
    /\ LET t1 == U32Add(millis, and_chain_cost(AdjustCombo))
       IN  /\ start' = t1
           /\ IF all_pressed(AdjustCombo)
              THEN /\ \E j \in Latencies : millis' = U32Add(t1, j)
                   /\ pc' = "adjust_hold"
                   /\ state' = state
              ELSE /\ millis' = t1
                   /\ pc' = "wait_event"
                   /\ state' = NoButtonState
    /\ bt' = [bt EXCEPT !.waited_ms = 0]
    /\ UNCHANGED <<hw_vars, caller, nvs_vars, pump_vars, loop_vars, cache_vars, result, sleep_sec,
                   raw_held, gesture, press_start, adj_vars, att>>

\* buttons.cpp: buttons_handle_interaction, one evaluation of the loop that
\* waits for the main + wet long press, and the test after it
adjust_combo_hold ==
    /\ pc = "adjust_hold"
    /\ LET t1 == U32Add(millis, and_chain_cost(AdjustCombo))
           held == U32Sub(t1, start)
       IN  IF all_pressed(AdjustCombo) /\ ~combo_long(held)
           THEN /\ millis' = U32Add(t1, POLL_DELAY_MS)
                /\ pc' = pc
                /\ UNCHANGED <<start, state, bt>>
           ELSE /\ millis' = t1
                /\ bt' = [classified(bt, "adjust", U32Val(held), combo_long(held)) EXCEPT
                            !.resolved_held = IF combo_long(held) THEN @ \cup raw_held ELSE @,
                            !.waited_ms = 0]
                /\ IF combo_long(held)
                   THEN /\ pc' = "humidity_adjust"
                        /\ UNCHANGED <<start, state>>
                   ELSE /\ pc' = "wait_event"
                        /\ start' = t1
                        /\ state' = NoButtonState
    /\ UNCHANGED <<hw_vars, caller, nvs_vars, pump_vars, loop_vars, cache_vars, result, sleep_sec,
                   raw_held, gesture, press_start, adj_vars, att>>

\* passes of a polling loop made in one step: stretch of them, but no pass
\* beyond the first one whose time test fails; last_ok is the largest elapsed
\* time that passes the test
passes(stretch, elapsed, last_ok) ==
    Max(1, Min(stretch, ((last_ok - elapsed) \div POLL_DELAY_MS) + 1))

\* buttons.cpp: button_wait_event, the loop that waits for a press: the
\* timeout test, button_check, and the delay when no button was found
button_wait_event_poll ==
    /\ pc = "wait_event"
    /\ IF ~U32Less(U32Sub(millis, start), EVENT_TIMEOUT_MS + 1)
       THEN /\ pc' = "dispatch"
            /\ UNCHANGED <<millis, state, press_start, bt>>
       ELSE \E bb \in Buttons : \E opt \in BounceOptions(bb) :
              LET on == opt[1]
                  r(b) == button_is_pressed(b, on, opt[2])
                  c(b) == button_read_cost(b, on, opt[2])
                  found == IF r("BTN_MAIN") THEN "BTN_MAIN"
                           ELSE IF r("BTN_CAL_WET") THEN "BTN_CAL_WET"
                           ELSE IF r("BTN_CAL_DRY") THEN "BTN_CAL_DRY"
                           ELSE "BTN_NONE"
                  cost == c("BTN_MAIN")
                            + (IF r("BTN_MAIN") THEN 0
                               ELSE c("BTN_CAL_WET")
                                      + (IF r("BTN_CAL_WET") THEN 0 ELSE c("BTN_CAL_DRY")))
                  was_read == \/ bb = "BTN_MAIN"
                              \/ bb = "BTN_CAL_WET" /\ ~r("BTN_MAIN")
                              \/ bb = "BTN_CAL_DRY" /\ ~r("BTN_MAIN") /\ ~r("BTN_CAL_WET")
                  t1 == U32Add(millis, cost)
              IN  /\ on # "none" => was_read
                  /\ IF found # "BTN_NONE"
                     THEN /\ state' = [button |-> found, event |-> "BTN_EVENT_SHORT_PRESS",
                                       press_duration_ms |-> 0]
                          /\ press_start' = t1
                          /\ \E j \in Latencies :
                               /\ millis' = U32Add(t1, j)
                               /\ bt' = [read_noted(bt, bb, on, r(bb)) EXCEPT
                                            !.co_held = raw_held, !.waited_ms = @ + cost + j,
                                            !.held_ms = j]
                          /\ pc' = "hold"
                     ELSE /\ \E stretch \in WaitStretch :
                               LET slept == POLL_DELAY_MS *
                                      (IF raw_held # {} THEN 1
                                       ELSE passes(stretch, U32Val(U32Sub(t1, start)), EVENT_TIMEOUT_MS))
                               IN  /\ raw_held # {} => stretch = 250
                                   /\ millis' = U32Add(t1, slept)
                                   /\ bt' = [read_noted(bt, bb, on, r(bb)) EXCEPT
                                                !.waited_ms = @ + cost + slept]
                          /\ pc' = pc
                          /\ UNCHANGED <<state, press_start>>
    /\ UNCHANGED <<hw_vars, caller, nvs_vars, pump_vars, loop_vars, cache_vars, result, sleep_sec,
                   raw_held, gesture, start, adj_vars, att>>

\* variant: the tagging step does not look at the event
tag_long_unlatched(press_duration_ms, event) == press_duration_ms >= BTN_LONG_PRESS_MS

\* buttons.cpp: button_wait_event, the condition of the long-press tagging step
tag_long(press_duration_ms, event) ==
    press_duration_ms >= BTN_LONG_PRESS_MS /\ event # "BTN_EVENT_LONG_PRESS"

\* buttons.cpp: button_wait_event, the event after the release
released_event(event) ==
    IF event # "BTN_EVENT_LONG_PRESS" THEN "BTN_EVENT_SHORT_PRESS" ELSE event

\* buttons.cpp: button_wait_event, one evaluation of the loop that measures
\* the hold, and the return after it
button_wait_event_hold ==
    /\ pc = "hold"
    /\ \E opt \in BounceOptions(state.button) :
          LET b == state.button
              ret == button_is_pressed(b, opt[1], opt[2])
              t1 == U32Add(millis, button_read_cost(b, opt[1], opt[2]))
              duration == U32Val(U32Sub(t1, press_start))
              tag == tag_long(duration, state.event)
              slept == (IF tag THEN LONG_FEEDBACK_MS ELSE 0) + POLL_DELAY_MS
              h == [read_noted(bt, b, opt[1], ret) EXCEPT
                       !.held_ms = @ + button_read_cost(b, opt[1], opt[2]) + (IF ret THEN slept ELSE 0)]
          IN  IF ret
              THEN /\ duration < MaxHoldMs
                   /\ state' = [state EXCEPT !.press_duration_ms = duration,
                                             !.event = IF tag THEN "BTN_EVENT_LONG_PRESS" ELSE @]
                   /\ millis' = U32Add(t1, slept)
                   /\ pc' = pc
                   /\ bt' = [h EXCEPT !.co_held = @ \cap raw_held,
                                      !.long_tags = IF tag THEN @ + 1 ELSE @,
                                      !.crossed = @ \/ duration >= BTN_LONG_PRESS_MS,
                                      !.retagged = @ \/ (state.event = "BTN_EVENT_LONG_PRESS" /\ tag)]
              ELSE /\ state' = [state EXCEPT !.event = released_event(@)]
                   /\ millis' = t1
                   /\ pc' = "dispatch"
                   /\ bt' = [classified(h, "event", state.press_duration_ms,
                                        released_event(state.event) = "BTN_EVENT_LONG_PRESS")
                                EXCEPT !.hold_broken = b \in raw_held,
                                       !.unlatched = @ \/ (state.event = "BTN_EVENT_LONG_PRESS"
                                                            /\ released_event(state.event) # state.event)]
    /\ UNCHANGED <<hw_vars, caller, nvs_vars, pump_vars, loop_vars, cache_vars, result, sleep_sec,
                   raw_held, gesture, press_start, start, adj_vars, att>>

\* buttons.cpp: buttons_handle_interaction, the switch on the event returned
\* by button_wait_event; the watering a long press of the main button asks
\* for is the call watering_manual(false)
single_button_action(button, event) ==
    CASE button = "BTN_MAIN" /\ event = "BTN_EVENT_LONG_PRESS" -> "manual_watering"
      [] button = "BTN_MAIN" /\ event = "BTN_EVENT_SHORT_PRESS" -> "display_humidity"
      [] button \in {"BTN_CAL_WET", "BTN_CAL_DRY"} -> "no_action"
      [] OTHER -> "no_event"

dispatch_event ==
    /\ pc = "dispatch"
    /\ pc' = "session_done"
    /\ bt' = [bt EXCEPT !.action = single_button_action(state.button, state.event),
                         !.resolved_held = IF state.button # "BTN_NONE"
                                           THEN @ \cup raw_held ELSE @]
    /\ UNCHANGED <<hw_vars, caller, nvs_vars, pump_vars, millis, loop_vars, cache_vars, result,
                   sleep_sec, raw_held, gesture, state, press_start, start, adj_vars, att>>

\* buttons.cpp: handle_calibration_mode, the loop that waits for all buttons
\* to be released
calibration_release ==
    /\ pc = "cal_release"
    /\ IF any_pressed(FullCombo)
       THEN /\ U32Less(U32Sub(millis, start), MaxComboMs)
            /\ millis' = U32Add(millis, or_chain_cost(FullCombo) + POLL_DELAY_MS)
            /\ pc' = pc
            /\ start' = start
       ELSE /\ millis' = millis
            /\ start' = millis
            /\ pc' = "cal_wait"
    /\ UNCHANGED <<hw_vars, caller, nvs_vars, pump_vars, loop_vars, cache_vars, result, sleep_sec,
                   raw_held, gesture, state, press_start, bt, adj_vars, att>>

\* buttons.cpp: handle_calibration_mode, the head of the selection loop: the
\* timeout test and the test of the wet button
calibration_wait ==
    /\ pc = "cal_wait"
    /\ IF ~U32Less(U32Sub(millis, start), CAL_TIMEOUT_MS)
       THEN /\ pc' = "session_done"
            /\ bt' = [bt EXCEPT !.action = "calibration_timeout"]
            /\ UNCHANGED <<millis, press_start>>
       ELSE LET h == [bt EXCEPT !.overstayed =
                         @ \/ U32Val(U32Sub(millis, start)) > MODE_TIMEOUT_MS]
            IN  IF pressed("BTN_CAL_WET")
                THEN /\ press_start' = U32Add(millis, BTN_DEBOUNCE_MS)
                     /\ \E j \in Latencies : millis' = U32Add(millis, BTN_DEBOUNCE_MS + j)
                     /\ pc' = "select_wet"
                     /\ bt' = [h EXCEPT !.place = "select", !.measured = 0, !.outcome = "NONE"]
                ELSE /\ pc' = "cal_dry_check"
                     /\ bt' = h
                     /\ UNCHANGED <<millis, press_start>>
    /\ UNCHANGED <<hw_vars, caller, nvs_vars, pump_vars, loop_vars, cache_vars, result, sleep_sec,
                   raw_held, gesture, state, start, adj_vars, att>>

\* buttons.cpp: handle_calibration_mode, the test of the dry button and the
\* delay at the end of a pass of the selection loop
calibration_dry_check ==
    /\ pc = "cal_dry_check"
    /\ IF pressed("BTN_CAL_DRY")
       THEN /\ press_start' = U32Add(millis, BTN_DEBOUNCE_MS)
            /\ \E j \in Latencies : millis' = U32Add(millis, BTN_DEBOUNCE_MS + j)
            /\ pc' = "select_dry"
            /\ bt' = [bt EXCEPT !.place = "select", !.measured = 0, !.outcome = "NONE"]
       ELSE /\ \E stretch \in WaitStretch :
                 /\ raw_held # {} => stretch = 250
                 /\ millis' = U32Add(millis, POLL_DELAY_MS *
                        (IF raw_held # {} THEN 1
                         ELSE passes(stretch, U32Val(U32Sub(millis, start)), CAL_TIMEOUT_MS - 1)))
            /\ pc' = "cal_wait"
            /\ UNCHANGED <<press_start, bt>>
    /\ UNCHANGED <<hw_vars, caller, nvs_vars, pump_vars, loop_vars, cache_vars, result, sleep_sec,
                   raw_held, gesture, state, start, adj_vars, att>>

\* variant: a calibration button counts as long-pressed as soon as it is held
select_long_at_once(held) == held >= 0

\* buttons.cpp: handle_calibration_mode, the long-press test of the selection
select_long(held) == held > BTN_LONG_PRESS_MS

\* buttons.cpp: handle_calibration_mode, one evaluation of the loop that
\* measures the hold of a calibration button: the calibration when the hold
\* is long, the delay when it is not yet, the way on after a release
calibration_select(button) ==
    /\ pc = (IF button = "BTN_CAL_WET" THEN "select_wet" ELSE "select_dry")
    /\ IF pressed(button)
       THEN LET t1 == U32Add(millis, BTN_DEBOUNCE_MS)
                held == U32Val(U32Sub(t1, press_start))
            IN  IF select_long(held)
                THEN /\ \E raw \in RawSamples :
                          IF button = "BTN_CAL_WET"
                          THEN sensor_wet' = raw /\ sensor_dry' = sensor_dry
                          ELSE sensor_dry' = raw /\ sensor_wet' = sensor_wet
                     /\ millis' = U32Add(t1, SENSOR_CALIBRATION_TIME_MS)
                     /\ pc' = (IF button = "BTN_CAL_WET" THEN "calibrated_wet" ELSE "calibrated_dry")
                     /\ bt' = [classified(bt, "select", held, TRUE) EXCEPT
                                 !.resolved_held = @ \cup raw_held,
                                 !.cal_writes = @ + 1]
                ELSE /\ millis' = U32Add(t1, POLL_DELAY_MS)
                     /\ pc' = pc
                     /\ bt' = [bt EXCEPT !.measured = held]
                     /\ UNCHANGED <<sensor_dry, sensor_wet>>
       ELSE /\ bt' = classified(bt, "select", bt.measured, FALSE)
            /\ IF button = "BTN_CAL_WET"
               THEN /\ pc' = "cal_dry_check"
                    /\ millis' = millis
               ELSE /\ pc' = "cal_wait"
                    /\ millis' = U32Add(millis, POLL_DELAY_MS)
            /\ UNCHANGED <<sensor_dry, sensor_wet>>
    /\ UNCHANGED <<hw_vars, caller, total_time, last_water, boot_count, min_humid, pump_vars,
                   loop_vars, cache_vars, result, sleep_sec,
                   raw_held, gesture, state, press_start, start, adj_vars, att>>

\* buttons.cpp: handle_calibration_mode, the wait for the release after a
\* calibration and the return
calibration_done(button) ==
    /\ pc = (IF button = "BTN_CAL_WET" THEN "calibrated_wet" ELSE "calibrated_dry")
    /\ ~pressed(button)
    /\ pc' = "session_done"
    /\ bt' = [bt EXCEPT !.action = pc]
    /\ UNCHANGED <<hw_vars, caller, nvs_vars, pump_vars, millis, loop_vars, cache_vars, result,
                   sleep_sec, raw_held, gesture, state, press_start, start, adj_vars, att>>

\* buttons.cpp: handle_humidity_adjustment, its literal times and step
ADJUST_TIMEOUT_MS == 5000
ADJUST_SHOW_DELAY_MS == 500
ADJUST_SAVE_DELAY_MS == 300
ADJUST_BLINK_MS == 150
ADJUST_STEP == 5
ADJUST_RAISE_MAX == 95
ADJUST_LOWER_MIN == 5

\* time (ms) led_display_number takes to flash a value
DisplayTimes == {4000}

\* target humidities found in storage when the adjustment starts
TargetHumidities == {0, 3, DEFAULT_MINIMAL_HUMIDITY, 95, 98, 100}

\* leds.cpp: led_green_blink / led_red_blink of one flash, the time taken
blink_cost(flash_ms) == flash_ms + LED_PAUSE_MS

\* storage.cpp: storage_get_optimal_humidity
storage_get_optimal_humidity == min_humid

\* storage.cpp: storage_set_optimal_humidity, the value written
storage_set_optimal_humidity(percent) == IF percent > 100 THEN 100 ELSE percent

\* the values of a uint8_t
UINT8 == 256

\* variant: the step is refused at the limit itself
raise_target_below_limit(value) ==
    IF value < ADJUST_RAISE_MAX THEN (value + ADJUST_STEP) % UINT8 ELSE value

\* buttons.cpp: handle_humidity_adjustment, a press of the wet button; current
\* is a uint8_t
raise_target(value) ==
    IF value <= ADJUST_RAISE_MAX THEN (value + ADJUST_STEP) % UINT8 ELSE value

\* variant: the step down is taken at every value
lower_target_unguarded(value) == (value - ADJUST_STEP) % UINT8

\* buttons.cpp: handle_humidity_adjustment, a press of the dry button
lower_target(value) ==
    IF value >= ADJUST_LOWER_MIN THEN (value - ADJUST_STEP) % UINT8 ELSE value

\* buttons.cpp: handle_humidity_adjustment, the read of the stored target
handle_humidity_adjustment ==
    /\ pc = "humidity_adjust"
    /\ current' = storage_get_optimal_humidity
    /\ pc' = "adjust_release"
    /\ bt' = [bt EXCEPT !.entry_target = storage_get_optimal_humidity]
    /\ UNCHANGED <<hw_vars, caller, nvs_vars, pump_vars, millis, loop_vars, cache_vars, result,
                   sleep_sec, raw_held, gesture, state, press_start, start, last_press, att>>

\* buttons.cpp: handle_humidity_adjustment, the loop that waits for main and
\* wet to be released, and the display of the value after it
adjust_release ==
    /\ pc = "adjust_release"
    /\ IF any_pressed(AdjustCombo)
       THEN /\ U32Less(U32Sub(millis, start), MaxComboMs)
            /\ millis' = U32Add(millis, or_chain_cost(AdjustCombo) + POLL_DELAY_MS)
            /\ pc' = pc
            /\ last_press' = last_press
       ELSE /\ \E d \in DisplayTimes :
                 millis' = U32Add(millis, 2 * ADJUST_SHOW_DELAY_MS + d)
            /\ last_press' = millis'
            /\ pc' = "adjust_loop"
    /\ UNCHANGED <<hw_vars, caller, nvs_vars, pump_vars, loop_vars, cache_vars, result, sleep_sec,
                   raw_held, gesture, state, press_start, start, current, bt, att>>

\* buttons.cpp: handle_humidity_adjustment, the head of the adjustment loop:
\* the timeout test with the save after the loop, and the test of the wet
\* button with the step up
adjust_loop ==
    /\ pc = "adjust_loop"
    /\ IF ~U32Less(U32Sub(millis, last_press), ADJUST_TIMEOUT_MS)
       THEN /\ min_humid' = storage_set_optimal_humidity(current)
            /\ \E d \in DisplayTimes :
                 millis' = U32Add(millis, ADJUST_SAVE_DELAY_MS + d + ADJUST_SHOW_DELAY_MS)
            /\ pc' = "session_done"
            /\ bt' = [bt EXCEPT !.action = "humidity_saved"]
            /\ UNCHANGED <<current, last_press>>
       ELSE IF pressed("BTN_CAL_WET")
            THEN /\ current' = raise_target(current)
                 /\ millis' = U32Add(millis, BTN_DEBOUNCE_MS + blink_cost(ADJUST_BLINK_MS))
                 /\ last_press' = millis'
                 /\ pc' = "release_wet"
                 /\ bt' = [bt EXCEPT !.presses = Append(@, "raise")]
                 /\ min_humid' = min_humid
            ELSE /\ pc' = "adjust_dry_check"
                 /\ UNCHANGED <<millis, current, last_press, bt, min_humid>>
    /\ UNCHANGED <<hw_vars, caller, total_time, last_water, boot_count, sensor_dry, sensor_wet,
                   pump_vars, loop_vars, cache_vars, result, sleep_sec,
                   raw_held, gesture, state, press_start, start, att>>

\* buttons.cpp: handle_humidity_adjustment, the test of the dry button with
\* the step down, and the delay at the end of a pass of the loop
adjust_dry_check ==
    /\ pc = "adjust_dry_check"
    /\ IF pressed("BTN_CAL_DRY")
       THEN /\ current' = lower_target(current)
            /\ millis' = U32Add(millis, BTN_DEBOUNCE_MS + blink_cost(ADJUST_BLINK_MS))
            /\ last_press' = millis'
            /\ pc' = "release_dry"
            /\ bt' = [bt EXCEPT !.presses = Append(@, "lower")]
       ELSE /\ \E stretch \in WaitStretch :
                 /\ raw_held # {} => stretch = 250
                 /\ millis' = U32Add(millis, POLL_DELAY_MS *
                        (IF raw_held # {} THEN 1
                         ELSE passes(stretch, U32Val(U32Sub(millis, last_press)),
                                     ADJUST_TIMEOUT_MS - 1)))
            /\ pc' = "adjust_loop"
            /\ UNCHANGED <<current, last_press, bt>>
    /\ UNCHANGED <<hw_vars, caller, nvs_vars, pump_vars, loop_vars, cache_vars, result, sleep_sec,
                   raw_held, gesture, state, press_start, start, att>>

\* buttons.cpp: button_wait_release, one evaluation of its loop, called by
\* handle_humidity_adjustment after a step
button_wait_release(button) ==
    /\ pc = (IF button = "BTN_CAL_WET" THEN "release_wet" ELSE "release_dry")
    /\ IF pressed(button)
       THEN /\ U32Val(U32Sub(millis, last_press)) < MaxHoldMs
            /\ millis' = U32Add(millis, BTN_DEBOUNCE_MS + POLL_DELAY_MS)
            /\ pc' = pc
       ELSE /\ millis' = millis
            /\ pc' = (IF button = "BTN_CAL_WET" THEN "adjust_dry_check" ELSE "adjust_loop")
    /\ UNCHANGED <<hw_vars, caller, nvs_vars, pump_vars, loop_vars, cache_vars, result, sleep_sec,
                   raw_held, gesture, state, press_start, start, adj_vars, bt, att>>

\* a button wake at the millis() value m: what the user holds when
\* buttons_handle_interaction starts
InitButtonsAt(m) ==
    /\ pc = "button_session"
    /\ caller = "none"
    /\ total_time = 0 /\ last_water = 0 /\ boot_count = 0
    /\ sensor_dry = DEFAULT_SENSOR_DRY
    /\ sensor_wet = DEFAULT_SENSOR_WET
    /\ pump_running = FALSE
    /\ millis = m
    /\ start_time = U32(0) /\ req_ms = 0 /\ duration_ms = 0
    /\ pulses = 0 /\ reached_max = FALSE
    /\ current_humidity = -1 /\ current_raw_sensor = 0
    /\ result = "NONE"
    /\ sleep_sec = 0
    /\ min_humid = DEFAULT_MINIMAL_HUMIDITY
    /\ \E g \in Gestures : raw_held = Head(g) /\ gesture = Tail(g)
    /\ state = NoButtonState
    /\ press_start = U32(0)
    /\ start = U32(0)
    /\ current = 0
    /\ last_press = U32(0)
    /\ prefs_open = TRUE
    /\ leds = {}
    /\ bt = NoButtonHistory
    /\ att = NoAttempt

\* the counter restarts at zero with every wake from deep sleep
InitButtons == InitButtonsAt(U32(0))

NextButtons ==
    \/ user_acts
    \/ buttons_handle_interaction
    \/ full_combo_hold
    \/ full_combo_confirm
    \/ adjust_combo_check
    \/ adjust_combo_hold
    \/ button_wait_event_poll
    \/ button_wait_event_hold
    \/ dispatch_event
    \/ calibration_release
    \/ calibration_wait
    \/ calibration_dry_check
    \/ \E button \in {"BTN_CAL_WET", "BTN_CAL_DRY"} : calibration_select(button)
    \/ \E button \in {"BTN_CAL_WET", "BTN_CAL_DRY"} : calibration_done(button)
    \/ handle_humidity_adjustment
    \/ adjust_release
    \/ adjust_loop
    \/ adjust_dry_check

SpecButtons == InitButtons /\ [][NextButtons]_vars

\* the steps of the firmware, those of the user aside
ProgramStep ==
    \/ buttons_handle_interaction
    \/ full_combo_hold
    \/ full_combo_confirm
    \/ adjust_combo_check
    \/ adjust_combo_hold
    \/ button_wait_event_poll
    \/ button_wait_event_hold
    \/ dispatch_event
    \/ calibration_release
    \/ calibration_wait
    \/ calibration_dry_check
    \/ \E button \in {"BTN_CAL_WET", "BTN_CAL_DRY"} : calibration_select(button)
    \/ \E button \in {"BTN_CAL_WET", "BTN_CAL_DRY"} : calibration_done(button)
    \/ handle_humidity_adjustment
    \/ adjust_release
    \/ adjust_loop
    \/ adjust_dry_check

\* the firmware keeps running; the user is free to act or not
SpecButtonsLive == SpecButtons /\ WF_vars(ProgramStep)

\* calibration values NVS can hold (uint16_t): zero, the defaults and their
\* neighbours, the ADC maximum and the largest value
CalibrationValues ==
    {0, DEFAULT_SENSOR_WET, DEFAULT_SENSOR_WET + 1, DEFAULT_SENSOR_DRY - 1, DEFAULT_SENSOR_DRY,
     ADC_MAX_VALUE, HALF - 1}

\* raw samples to convert: the ends of the ADC range and both sides of the
\* default calibration values
ConvertSamples ==
    {0, 1, DEFAULT_SENSOR_WET - 1, DEFAULT_SENSOR_WET, DEFAULT_SENSOR_WET + 1, 2300,
     DEFAULT_SENSOR_DRY - 1, DEFAULT_SENSOR_DRY, DEFAULT_SENSOR_DRY + 1, ADC_MAX_VALUE}

\* the conversion of one raw sample under one stored calibration pair
InitConvert ==
    /\ pc = "convert"
    /\ caller = "none"
    /\ total_time = 0 /\ last_water = 0 /\ boot_count = 0
    /\ min_humid = DEFAULT_MINIMAL_HUMIDITY
    /\ sensor_dry \in CalibrationValues
    /\ sensor_wet \in CalibrationValues
    /\ pump_running = FALSE
    /\ millis = U32(0)
    /\ start_time = U32(0) /\ req_ms = 0 /\ duration_ms = 0
    /\ pulses = 0 /\ reached_max = FALSE
    /\ current_humidity = -1
    /\ current_raw_sensor \in ConvertSamples
    /\ result = "NONE"
    /\ sleep_sec = 0
    /\ prefs_open = TRUE
    /\ leds = {}
    /\ NoInteraction
    /\ att = NoAttempt

\* sensor.cpp: a call sensor_raw_to_humidity_percent(raw) on the sample at
\* hand; the result is kept as the caller keeps it
convert_sample ==
    /\ pc = "convert"
    /\ current_humidity' = sensor_raw_to_humidity_percent(current_raw_sensor)
    /\ pc' = "converted"
    /\ UNCHANGED <<hw_vars, btn_vars, caller, nvs_vars, pump_vars, millis, pulses, reached_max,
                   current_raw_sensor, result, sleep_sec, att>>

NextConvert == convert_sample

SpecConvert == InitConvert /\ [][NextConvert]_vars

\* a millis() value one second before the counter wraps
WrapStart == <<HALF - 1, HALF - 1000>>

\* the timed loops with the counter close to its wrap: a direct pump run, and a
\* button interaction of a device that has been awake for 2^32 - 1000 ms
InitWrap == InitPumpAt \/ InitButtonsAt(WrapStart)

NextWrap == NextPump \/ NextButtons

SpecWrap == InitWrap /\ [][NextWrap]_vars

\* what the user does once handle_humidity_adjustment has been entered with
\* main and wet held: the release, then presses of wet and dry
AdjustGestures ==
    {<<{}>>,
     <<{}, {"BTN_CAL_WET"}, {}>>,
     <<{}, {"BTN_CAL_DRY"}, {}>>,
     <<{}, {"BTN_CAL_WET"}, {}, {"BTN_CAL_WET"}, {}>>,
     <<{}, {"BTN_CAL_WET"}, {}, {"BTN_CAL_DRY"}, {}>>,
     <<{}, {"BTN_CAL_DRY"}, {}, {"BTN_CAL_WET"}, {}>>,
     <<{}, {"BTN_CAL_DRY"}, {}, {"BTN_CAL_DRY"}, {}>>,
     <<{}, {"BTN_CAL_WET", "BTN_CAL_DRY"}, {}>>}

\* handle_humidity_adjustment is entered after the main + wet long press
InitAdjust ==
    /\ pc = "humidity_adjust"
    /\ caller = "none"
    /\ total_time = 0 /\ last_water = 0 /\ boot_count = 0
    /\ min_humid \in TargetHumidities
    /\ sensor_dry = DEFAULT_SENSOR_DRY
    /\ sensor_wet = DEFAULT_SENSOR_WET
    /\ pump_running = FALSE
    /\ millis = U32(BTN_DEBOUNCE_MS + BTN_LONG_PRESS_MS)
    /\ start_time = U32(0) /\ req_ms = 0 /\ duration_ms = 0
    /\ pulses = 0 /\ reached_max = FALSE
    /\ current_humidity = -1 /\ current_raw_sensor = 0
    /\ result = "NONE"
    /\ sleep_sec = 0
    /\ raw_held = {"BTN_MAIN", "BTN_CAL_WET"}
    /\ gesture \in AdjustGestures
    /\ state = NoButtonState
    /\ press_start = U32(0)
    /\ start = U32(BTN_DEBOUNCE_MS)
    /\ current = 0
    /\ last_press = U32(0)
    /\ prefs_open = TRUE
    /\ leds = {}
    /\ bt = [classified(NoButtonHistory, "adjust", BTN_LONG_PRESS_MS, TRUE) EXCEPT
                !.resolved_held = {"BTN_MAIN", "BTN_CAL_WET"}]
    /\ att = NoAttempt

NextAdjust ==
    \/ user_acts
    \/ handle_humidity_adjustment
    \/ adjust_release
    \/ adjust_loop
    \/ adjust_dry_check
    \/ \E button \in {"BTN_CAL_WET", "BTN_CAL_DRY"} : button_wait_release(button)

SpecAdjust == InitAdjust /\ [][NextAdjust]_vars

\* ------------------------------------------------------------------ claims

AutoAttempt == att.kind = "auto"
ManualAttempt == att.kind = "manual"

\* C1: a call of watering_check_and_execute whose sample is valid and whose
\* humidity is at or above the stored minimal threshold returns
\* WATER_NOT_NEEDED, whatever battery, reservoir and interval are, and the
\* pump is never switched on in that call.
C1_NotNeededWhenMoist ==
    (AutoAttempt /\ att.raw_valid /\ att.hum >= min_humid)
        => /\ result = "WATER_NOT_NEEDED"
           /\ pc = "pre_sleep"
           /\ att.pump_calls = 0
           /\ att.pump_ons = 0
           /\ ~pump_running

\* humidity exactly on the threshold, with reservoir low, battery low and
\* the interval not elapsed
C1_Witness ==
    /\ AutoAttempt /\ att.raw_valid
    /\ att.hum = min_humid
    /\ att.low /\ ~att.batt_ok /\ ~att.interval_ok
    /\ result = "WATER_NOT_NEEDED"

\* the result the fixed gate order yields for the readings of the attempt
FirstFailingGate ==
    IF ~att.raw_valid THEN "WATER_SENSOR_ERROR"
    ELSE IF att.hum >= min_humid THEN "WATER_NOT_NEEDED"
    ELSE IF att.low THEN "WATER_RESERVOIR_LOW"
    ELSE IF ~att.batt_ok THEN "WATER_BATTERY_LOW"
    ELSE IF ~att.interval_ok THEN "WATER_TOO_SOON"
    ELSE "PASS"

\* C2: watering_check_and_execute returns the result of the first failing
\* gate in the order sensor, humidity, reservoir, battery, interval, and the
\* pulse loop is entered (and pump_run_timed called) only if all five pass.
C2_GateOrder ==
    AutoAttempt =>
        /\ FirstFailingGate # "PASS"
              => /\ result = FirstFailingGate
                 /\ pc = "pre_sleep"
                 /\ att.pump_calls = 0
        /\ (pc \in {"pulse_loop", "pump_call", "pump_run", "soak"} \/ att.pump_calls > 0
               \/ result \in {"WATER_OK", "WATER_PARTIAL", "WATER_PUMP_FAILED"})
              => FirstFailingGate = "PASS"

\* reservoir, battery and interval all fail: the reservoir is reported
C2_Witness ==
    /\ AutoAttempt
    /\ att.raw_valid /\ att.hum < min_humid
    /\ att.low /\ ~att.batt_ok /\ ~att.interval_ok
    /\ result = "WATER_RESERVOIR_LOW"

\* C3: an initial raw sample outside the band (raw < 100 or raw >
\* ADC_MAX_VALUE - 100) makes watering_check_and_execute return
\* WATER_SENSOR_ERROR with no pump activation and the stored last-watering
\* timestamp unchanged.
C3_SensorError ==
    (AutoAttempt /\ (current_raw_sensor < 100 \/ current_raw_sensor > ADC_MAX_VALUE - 100))
        => /\ result = "WATER_SENSOR_ERROR"
           /\ pc = "pre_sleep"
           /\ att.pump_calls = 0
           /\ att.pump_ons = 0
           /\ ~pump_running
           /\ att.ts_writes = 0
           /\ last_water = att.entry_last_water

\* the sample one count below the band, with a timestamp stored
C3_Witness ==
    /\ AutoAttempt
    /\ current_raw_sensor = 99
    /\ result = "WATER_SENSOR_ERROR"
    /\ last_water # 0

\* C4: in every watering attempt the pulse loop switches the pump on at most
\* MAX_PUMP_PULSES times, whatever the re-samples, battery and reservoir
\* readings are.
C4_PulseCeiling ==
    /\ att.pump_ons <= MAX_PUMP_PULSES
    /\ att.pump_calls <= MAX_PUMP_PULSES
    /\ pulses <= MAX_PUMP_PULSES

\* the budget is used up without the target being reached
C4_Witness ==
    /\ AutoAttempt
    /\ att.pump_ons = MAX_PUMP_PULSES
    /\ result = "WATER_PARTIAL"

\* C5: pump_run_timed(d) clamps a request above PUMP_MAX_DURATION_MS to the
\* ceiling before the pump is started, for every d: the bound of the run loop
\* is min(d, PUMP_MAX_DURATION_MS), and an evaluation of the run loop leaves
\* the pump on only while millis() - start_time reads less than that bound,
\* so less than the ceiling.
C5_DurationCeiling ==
    /\ duration_ms <= PUMP_MAX_DURATION_MS
    /\ pump_running
          => /\ pc = "pump_run"
             /\ duration_ms = (IF req_ms > PUMP_MAX_DURATION_MS
                               THEN PUMP_MAX_DURATION_MS ELSE req_ms)
             /\ att.kept_on_at < duration_ms
             /\ att.kept_on_at < PUMP_MAX_DURATION_MS

\* a request of twice the ceiling ran to completion; the last evaluation
\* that left the pump on read 9000 ms
C5_Witness ==
    /\ pc = "direct_done"
    /\ req_ms = 2 * PUMP_MAX_DURATION_MS
    /\ result = "TRUE"
    /\ att.kept_on_at = 9000
    /\ ~pump_running

\* C6: watering_manual(true) returns WATER_RESERVOIR_LOW when the reservoir
\* is low, and WATER_BATTERY_LOW when the reservoir gate passes and the
\* battery is below the watering-allowed threshold; in both cases the pump is
\* never switched on.
C6_ForceKeepsGates ==
    (ManualAttempt /\ att.force) =>
        /\ att.low => /\ result = "WATER_RESERVOIR_LOW"
                      /\ att.pump_calls = 0 /\ att.pump_ons = 0 /\ ~pump_running
        /\ (~att.low /\ ~att.batt_ok)
               => /\ result = "WATER_BATTERY_LOW"
                  /\ att.pump_calls = 0 /\ att.pump_ons = 0 /\ ~pump_running
        /\ (att.pump_calls > 0 \/ pump_running) => (~att.low /\ att.batt_ok)

\* forced, reservoir full, battery low, interval not elapsed
C6_Witness ==
    /\ ManualAttempt /\ att.force
    /\ ~att.low /\ ~att.batt_ok /\ ~att.interval_ok
    /\ result = "WATER_BATTERY_LOW"

PulseLoopEnded ==
    /\ AutoAttempt
    /\ result \in {"WATER_OK", "WATER_PARTIAL", "WATER_PUMP_FAILED"}

\* C7: when every battery and reservoir reading of the pulse loop passes and
\* every re-sample is valid, the loop issues exactly MAX_PUMP_PULSES
\* activations and returns WATER_PARTIAL if no re-sample reaches the upper
\* target, and exactly k activations and WATER_OK if the re-sample after
\* pulse k is the first to reach it.
C7_PulseCount ==
    (PulseLoopEnded /\ att.gates_ok) =>
        /\ att.first_reach = 0
              => /\ att.pump_ons = MAX_PUMP_PULSES
                 /\ result = "WATER_PARTIAL"
        /\ att.first_reach > 0
              => /\ att.pump_ons = att.first_reach
                 /\ att.resamples = att.first_reach
                 /\ result = "WATER_OK"

\* the target is reached exactly on the upper bound after the third pulse
C7_Witness ==
    /\ PulseLoopEnded /\ att.gates_ok
    /\ att.first_reach = 3
    /\ current_humidity = DEFAULT_MAX_HUMIDITY
    /\ result = "WATER_OK"

\* C8: a watering_check_and_execute call whose pulse loop ends with WATER_OK
\* or WATER_PARTIAL sets the stored last-watering timestamp to the current
\* persistent time; one that ends with WATER_PUMP_FAILED does not write it.
C8_TimestampCommit ==
    AutoAttempt =>
        /\ result \in {"WATER_OK", "WATER_PARTIAL"}
              => /\ att.ts_writes = 1
                 /\ last_water = total_time
        /\ result = "WATER_PUMP_FAILED"
              => /\ att.ts_writes = 0
                 /\ last_water = att.entry_last_water

\* a partial dosing moved the timestamp
C8_Witness ==
    /\ AutoAttempt
    /\ result = "WATER_PARTIAL"
    /\ att.entry_last_water # total_time
    /\ last_water = total_time

\* C9: an attempt that returns WATER_PUMP_FAILED never switched the pump on,
\* and an attempt in which the pump was on ends with WATER_OK or
\* WATER_PARTIAL and writes the last-watering timestamp.
C9_FailedMeansDry ==
    (att.kind \in {"auto", "manual"} /\ pc = "pre_sleep") =>
        /\ result = "WATER_PUMP_FAILED" => att.pump_ons = 0
        /\ att.pump_ons > 0
              => /\ result \in {"WATER_OK", "WATER_PARTIAL"}
                 /\ att.ts_writes = 1

\* C10: if the first call of pump_run_timed in the pulse loop fails, the loop
\* returns WATER_PUMP_FAILED at once: no soak wait, no re-sample and no
\* further activation follow.
C10_FirstPulseFails ==
    (AutoAttempt /\ att.first_failed) =>
        /\ result = "WATER_PUMP_FAILED"
        /\ pc = "pre_sleep"
        /\ att.pump_calls = 1
        /\ att.soaks = 0
        /\ att.resamples = 0
        /\ ~pump_running

\* the battery refused the first pulse at its start
C10_Witness ==
    /\ AutoAttempt /\ att.first_failed
    /\ att.pump_ons = 0
    /\ result = "WATER_PUMP_FAILED"

\* C11: in the pulse loop every call of pump_run_timed after the first is
\* preceded by a re-check at which the battery gate and the reservoir gate
\* both passed; a re-check at which either fails ends the loop with
\* WATER_PARTIAL, and no call of pump_run_timed follows it in that attempt.
C11_RecheckBeforePulse ==
    AutoAttempt =>
        /\ att.pump_calls <= att.recheck_passes + 1
        /\ att.recheck_failed
              => /\ result = "WATER_PARTIAL"
                 /\ pc = "pre_sleep"
                 /\ att.pump_calls = att.resamples
                 /\ att.pump_calls = att.recheck_passes + 1
                 /\ ~pump_running

\* the re-check after the second pulse failed, the one after the first passed
C11_Witness ==
    /\ AutoAttempt /\ att.recheck_failed
    /\ att.recheck_passes = 1
    /\ att.pump_ons = 2
    /\ result = "WATER_PARTIAL"

\* C12: while the pump runs, every iteration of the run loop of
\* pump_run_timed reads the battery gate; the iteration whose reading fails
\* switches the pump off itself, without a further wait, and pump_run_timed
\* returns false.
C12_HardStop ==
    /\ att.run_checks = att.run_iters
    /\ att.run_batt_low
          => /\ ~pump_running
             /\ pc # "pump_run"
             /\ att.aborted
             /\ att.returned = "FALSE"

\* the battery failed in the second iteration of a run, 1500 ms after pump_on
C12_Witness ==
    /\ att.run_batt_low
    /\ att.run_iters = 2
    /\ att.kept_on_at = 0
    /\ att.returned = "FALSE"
    /\ ~pump_running

IntervalAnswered == pc = "query_done" /\ att.kind = "interval"

\* C13: interval_elapsed() is true when the stored last-watering timestamp is
\* 0; for a stored timestamp T > 0 it is false at current time
\* T + MIN_WATERING_INTERVAL_SEC - 1 and true at T + MIN_WATERING_INTERVAL_SEC:
\* from T on it is true exactly when current - T >= MIN_WATERING_INTERVAL_SEC.
C13_IntervalBoundary ==
    IntervalAnswered =>
        /\ last_water = 0 => result = "TRUE"
        /\ (last_water > 0 /\ total_time = last_water + MIN_WATERING_INTERVAL_SEC - 1)
              => result = "FALSE"
        /\ (last_water > 0 /\ total_time = last_water + MIN_WATERING_INTERVAL_SEC)
              => result = "TRUE"
        /\ (last_water > 0 /\ total_time >= last_water)
              => (result = "TRUE" <=> total_time - last_water >= MIN_WATERING_INTERVAL_SEC)

\* one second before the interval is over
C13_Witness ==
    /\ IntervalAnswered
    /\ last_water = MEASUREMENT_INTERVAL_SEC
    /\ total_time = MEASUREMENT_INTERVAL_SEC + MIN_WATERING_INTERVAL_SEC - 1
    /\ result = "FALSE"

\* C14: when the stored last-watering timestamp is greater than the current
\* persistent time, interval_elapsed() returns true and
\* get_seconds_until_interval_elapsed() returns 0; neither function ever
\* computes current - last with current < last.
C14_NoUnderflow ==
    /\ ~att.underflow
    /\ (pc = "query_done" /\ last_water > total_time)
          => /\ att.kind = "interval" => result = "TRUE"
             /\ att.kind = "seconds" => att.seconds_until = 0

\* the stored timestamp is one second ahead of the persistent time
C14_Witness ==
    /\ IntervalAnswered
    /\ last_water = MEASUREMENT_INTERVAL_SEC
    /\ total_time = MEASUREMENT_INTERVAL_SEC - 1
    /\ result = "TRUE"

\* C15: the persisted time accumulator never gets smaller: no step of the
\* firmware, in a wake cycle of any reason (timer, button, power-on,
\* unknown), leaves storage_get_persistent_time below its earlier value.
C15_TimeMonotone == [][total_time' >= total_time]_vars

\* two wake cycles advanced the accumulator from 7200 s
C15_Witness ==
    /\ boot_count = 2
    /\ total_time = 4 * MEASUREMENT_INTERVAL_SEC
    /\ pc = "pre_sleep"

\* C16: on every wake the accumulator is advanced by the duration slept in
\* the sleep that just ended, so by the programmed duration
\* (MEASUREMENT_INTERVAL_SEC or ALERT_INTERVAL_SEC) or by less after a button
\* wake, and never by more.
C16_AdvanceIsSleep ==
    [][(pc = "sleep" /\ pc' # "sleep") => total_time' - total_time <= sleep_sec]_vars

\* a call of watering_manual with the reservoir and battery gates passing
\* and the minimum interval not elapsed
ManualTooSoon ==
    /\ ManualAttempt
    /\ ~att.low /\ att.batt_ok /\ ~att.interval_ok

\* C17: with the reservoir and battery gates passing and the minimum
\* interval not elapsed, watering_manual(false) returns WATER_TOO_SOON and
\* never switches the pump on, while watering_manual(true) skips the interval
\* gate and calls pump_run_timed once: the pump runs and the result is
\* WATER_OK unless the battery check of pump_run_timed itself fails.
C17_ForceSkipsInterval ==
    ManualTooSoon =>
        /\ ~att.force
              => /\ result = "WATER_TOO_SOON"
                 /\ pc = "pre_sleep"
                 /\ att.pump_calls = 0 /\ att.pump_ons = 0 /\ ~pump_running
        /\ att.force
              => /\ result \in {"NONE", "WATER_OK", "WATER_PUMP_FAILED"}
                 /\ pc = "pump_call" \/ att.pump_calls = 1
                 /\ (pc = "pre_sleep" /\ att.gates_ok)
                       => /\ result = "WATER_OK"
                          /\ att.pump_ons = 1
                          /\ att.kept_on_at >= 0
                 /\ result = "WATER_PUMP_FAILED" => att.returned = "FALSE"

\* the forced call ran the pump although the interval had not elapsed
C17_Witness ==
    /\ ManualTooSoon /\ att.force
    /\ att.pump_ons = 1
    /\ att.returned = "TRUE"
    /\ result = "WATER_OK"

\* the unforced call in the same state
C17_WitnessTooSoon ==
    /\ ManualTooSoon /\ ~att.force
    /\ result = "WATER_TOO_SOON"

\* C18: for every button, a raw level change shorter than BTN_DEBOUNCE_MS
\* never changes what the debounce layer reports: a read that a bounce falls
\* on returns the level of the contact without the bounce, and a bounce
\* during a hold does not end the hold loop of button_wait_event.
C18_BounceIgnored ==
    /\ bt.bounced => bt.read_ret = bt.read_stable
    /\ ~bt.hold_broken

\* the part of C18 the code keeps: a bounce on a released button is never
\* reported as a press
C18_PressBounceRejected ==
    (bt.bounced /\ ~bt.read_stable) => ~bt.read_ret

\* C19: wherever a hold is classified (button_wait_event, the two combo
\* loops, the calibration selection), a hold measured at BTN_LONG_PRESS_MS
\* or more is LONG and a hold measured below it is SHORT.
C19_ThresholdEverywhere ==
    bt.outcome \in {"LONG", "SHORT"}
        => (bt.outcome = "LONG" <=> bt.measured >= BTN_LONG_PRESS_MS)

\* the part of C19 the code keeps: button_wait_event and the two combo loops
C19_ThresholdOutsideSelection ==
    (bt.outcome \in {"LONG", "SHORT"} /\ bt.place # "select")
        => (bt.outcome = "LONG" <=> bt.measured >= BTN_LONG_PRESS_MS)

\* C20: during one press button_wait_event executes the long-press tagging
\* step at most once; once the event is BTN_EVENT_LONG_PRESS it stays so
\* until the release, and a press whose measured duration reached
\* BTN_LONG_PRESS_MS is returned as BTN_EVENT_LONG_PRESS.
C20_LongLatched ==
    /\ bt.long_tags <= 1
    /\ ~bt.retagged
    /\ ~bt.unlatched
    /\ bt.long_tags = 1 => state.event = "BTN_EVENT_LONG_PRESS"
    /\ bt.crossed => /\ bt.long_tags = 1
                     /\ state.event = "BTN_EVENT_LONG_PRESS"
    /\ (pc \in {"dispatch", "session_done"} /\ state.event = "BTN_EVENT_LONG_PRESS")
          => bt.crossed

\* the main button was held on well beyond the tagging and then released
C20_Witness ==
    /\ pc = "session_done"
    /\ state.button = "BTN_MAIN"
    /\ state.press_duration_ms > BTN_LONG_PRESS_MS + 100
    /\ bt.long_tags = 1
    /\ state.event = "BTN_EVENT_LONG_PRESS"
    /\ bt.action = "manual_watering"

\* the outcome of each button in a press that button_wait_event followed: the
\* buttons held together through the press share the returned event
Outcomes ==
    [b \in Buttons |->
        IF b \in bt.co_held
        THEN (IF state.event = "BTN_EVENT_LONG_PRESS" THEN "LONG" ELSE "SHORT")
        ELSE "NONE"]

OutcomeTuple == <<Outcomes["BTN_MAIN"], Outcomes["BTN_CAL_WET"], Outcomes["BTN_CAL_DRY"]>>

\* C21: from the top level, (LONG, NONE, NONE) leads to manual watering,
\* (SHORT, NONE, NONE) to the humidity display and (NONE, LONG, LONG) to
\* calibration mode; a tuple outside the transition table changes no mode and
\* triggers no watering, calibration or setting change.
C21_GeneralTable ==
    /\ (pc = "session_done" /\ bt.place = "event") =>
          CASE OutcomeTuple = <<"LONG", "NONE", "NONE">> -> bt.action = "manual_watering"
            [] OutcomeTuple = <<"SHORT", "NONE", "NONE">> -> bt.action = "display_humidity"
            [] OutcomeTuple = <<"NONE", "LONG", "LONG">> -> bt.action = "calibration_mode"
            [] OutcomeTuple \in {<<"LONG", "LONG", "LONG">>, <<"NONE", "NONE", "SHORT">>} -> TRUE
            [] OTHER -> bt.action \in {"no_action", "no_event"}
    /\ ~(bt.place = "adjust" /\ bt.outcome = "LONG")

\* the part of C21 the code keeps: the two rows of the main button
C21_MainButtonRows ==
    (pc = "session_done" /\ bt.place = "event") =>
        /\ OutcomeTuple = <<"LONG", "NONE", "NONE">> => bt.action = "manual_watering"
        /\ OutcomeTuple = <<"SHORT", "NONE", "NONE">> => bt.action = "display_humidity"

\* the row of C21 for calibration mode alone
C21_CalibrationRow ==
    (pc = "session_done" /\ bt.place = "event" /\ OutcomeTuple = <<"NONE", "LONG", "LONG">>)
        => bt.action = "calibration_mode"

\* C22: a sub-mode older than MODE_TIMEOUT_MS is left at the next poll,
\* whatever the buttons do: no pass of the selection loop of calibration mode
\* finds the mode older than that and stays in it.
C22_SubModeTimeout == ~bt.overstayed

\* the part of C22 the code keeps: a pass of the selection loop that finds
\* calibration mode CAL_TIMEOUT_MS old goes no further, and the timeout ends
\* the interaction without a calibration
C22_LeftAtCodeTimeout ==
    /\ pc = "cal_dry_check" => U32Val(U32Sub(millis, start)) < CAL_TIMEOUT_MS
    /\ bt.action = "calibration_timeout" =>
          /\ pc = "session_done"
          /\ sensor_dry = DEFAULT_SENSOR_DRY /\ sensor_wet = DEFAULT_SENSOR_WET

\* raise presses minus lower presses among the presses detected
RECURSIVE NetSteps(_)
NetSteps(presses) ==
    IF presses = <<>> THEN 0
    ELSE (IF Head(presses) = "raise" THEN 1 ELSE -1) + NetSteps(Tail(presses))

\* the target after the presses, a step being left out when it would take the
\* target out of 0..100
RECURSIVE StepsWithinRange(_, _)
StepsWithinRange(target, presses) ==
    IF presses = <<>> THEN target
    ELSE LET stepped == IF Head(presses) = "raise"
                        THEN target + HUMIDITY_STEP ELSE target - HUMIDITY_STEP
         IN  StepsWithinRange(IF stepped \in 0..100 THEN stepped ELSE target, Tail(presses))

\* C24 as stated: every press of wet adds HUMIDITY_STEP and every press of
\* dry subtracts it, and the value saved is the target so adjusted.
C24_ExactSteps ==
    bt.action = "humidity_saved"
        => min_humid = bt.entry_target + HUMIDITY_STEP * NetSteps(bt.presses)

\* C24, amended: every press of wet adds HUMIDITY_STEP and every press of dry
\* subtracts it unless the step would take the target out of 0..100, in which
\* case the press leaves the target as it is; the presses of one adjustment
\* accumulate, nothing is written before the adjustment ends, and the value
\* saved is the target so adjusted.
C24_StepsWithinRange ==
    bt.entry_target # -1 =>
        /\ current = StepsWithinRange(bt.entry_target, bt.presses)
        /\ IF bt.action = "humidity_saved"
           THEN pc = "session_done" /\ min_humid = current
           ELSE min_humid = bt.entry_target

\* two presses in one adjustment, both applied and saved
C24_Witness ==
    /\ bt.action = "humidity_saved"
    /\ bt.presses = <<"lower", "raise">>
    /\ bt.entry_target = 95
    /\ min_humid = 95

\* a press at the end of the range
C24_WitnessAtLimit ==
    /\ bt.action = "humidity_saved"
    /\ bt.presses = <<"raise", "raise">>
    /\ bt.entry_target = 95
    /\ min_humid = 100

\* C23: every interaction ends, whatever the buttons do, a button that stays
\* held included: buttons_handle_interaction returns.
C23_SessionEnds == <>(pc = "session_done")

\* the interaction is in the hold loop of button_wait_event with the button
\* held on and the long press tagged
C23_HeldOn ==
    /\ pc = "hold"
    /\ state.button \in raw_held
    /\ state.event = "BTN_EVENT_LONG_PRESS"
    /\ state.press_duration_ms >= MaxHoldMs - (BTN_DEBOUNCE_MS + POLL_DELAY_MS)

\* C25: a mode or an action is chosen only at a moment when all three buttons
\* are released.
C25_ResolvedWhenReleased == bt.resolved_held = {}

\* the part of C25 the code keeps: button_wait_event returns an event of a
\* button only after a read of that button as released
C25_TrackedButtonReleased ==
    (pc = "dispatch" /\ state.button # "BTN_NONE" /\ ~bt.hold_broken)
        => state.button \notin raw_held

C26_WitnessLedLit ==
    /\ pc = "pre_sleep"
    /\ leds # {}
    /\ prefs_open

\* C27: every elapsed time the firmware computes is the unsigned difference
\* millis() - start, and that difference is the time that really passed also
\* when the counter wrapped in between: in the pump run loop, in the wait for
\* a press and in the hold loop of button_wait_event; so a pump run that spans
\* the wrap still ends, with the pump off, once the requested duration has
\* passed and before one more advance of the counter
C27_WrapSafeElapsed ==
    /\ pc = "pump_run" => U32Sub(millis, start_time) = U32(att.on_ms)
    /\ (pc = "direct_done" /\ att.returned = "TRUE") =>
          /\ ~pump_running
          /\ att.on_ms >= duration_ms
          /\ \E dt \in TickSteps : att.on_ms < duration_ms + dt
    /\ pc = "wait_event" => U32Sub(millis, start) = U32(bt.waited_ms)
    /\ pc = "hold" =>
          /\ U32Sub(millis, press_start) = U32(bt.held_ms)
          /\ state.press_duration_ms <= bt.held_ms

\* C27 witness: a pump run that started before the wrap of the counter and ended
\* after it, having lasted the requested duration
C27_Witness ==
    /\ pc = "direct_done"
    /\ att.returned = "TRUE"
    /\ start_time[1] = HALF - 1
    /\ millis[1] = 0
    /\ att.on_ms >= PUMP_RUN_DURATION_MS

\* C27 witness: a long press whose hold began before the wrap and was tagged
\* after it
C27_WitnessLongPress ==
    /\ pc = "hold"
    /\ press_start[1] = HALF - 1
    /\ millis[1] = 0
    /\ state.event = "BTN_EVENT_LONG_PRESS"

\* C27 witness: the wait for a press that began before the wrap and timed out
\* after it
C27_WitnessTimeout ==
    /\ pc = "wait_event"
    /\ start[1] = HALF - 1
    /\ millis[1] = 0
    /\ bt.waited_ms > EVENT_TIMEOUT_MS

\* C28: a stored calibration value changes only in a step that stores it from
\* calibration mode, which was entered by holding all three buttons for
\* BTN_LONG_PRESS_MS, after a calibration button was then held longer than
\* BTN_LONG_PRESS_MS; an interaction that ends with the press of one
\* calibration button at the top level has stored no calibration value, has
\* not entered the adjustment and leaves every persisted value as it was
C28_CalibrationProtected ==
    /\ [](bt.cal_writes > 0 =>
            /\ bt.combo_ms >= BTN_LONG_PRESS_MS
            /\ bt.place = "select"
            /\ bt.outcome = "LONG"
            /\ bt.measured > BTN_LONG_PRESS_MS)
    /\ [](bt.action = "no_action" =>
            /\ state.button \in {"BTN_CAL_WET", "BTN_CAL_DRY"}
            /\ bt.cal_writes = 0
            /\ bt.combo_ms = -1
            /\ bt.entry_target = -1
            /\ sensor_dry = DEFAULT_SENSOR_DRY
            /\ sensor_wet = DEFAULT_SENSOR_WET
            /\ min_humid = DEFAULT_MINIMAL_HUMIDITY)
    /\ [][(sensor_dry' # sensor_dry \/ sensor_wet' # sensor_wet) =>
            (/\ pc \in {"select_wet", "select_dry"}
             /\ bt.combo_ms >= BTN_LONG_PRESS_MS
             /\ bt'.cal_writes = bt.cal_writes + 1)]_vars

\* C28 witness: the wet value was calibrated after the combo and a long press
\* of the wet button
C28_Witness ==
    /\ pc = "session_done"
    /\ bt.action = "calibrated_wet"
    /\ bt.cal_writes = 1
    /\ sensor_wet # DEFAULT_SENSOR_WET

\* C28 witness: a long press of the dry button alone at the top level ended the
\* interaction with nothing stored
C28_WitnessAlone ==
    /\ pc = "session_done"
    /\ bt.action = "no_action"
    /\ state.button = "BTN_CAL_DRY"
    /\ state.event = "BTN_EVENT_LONG_PRESS"

\* C29: from the moment handle_timer_wake has read a low reservoir or a
\* critical battery to the deep sleep that ends the wake cycle,
\* watering_check_and_execute is not called and the pump is not switched on
C29_TimerWakeSkips ==
    (att.wake_low \/ att.wake_critical) =>
        /\ pc = "pre_sleep"
        /\ att.kind = "none"
        /\ att.pump_calls = 0
        /\ att.pump_ons = 0
        /\ ~pump_running

\* C29 witness: the handler returned for a low reservoir with a battery that
\* was not critical
C29_Witness ==
    /\ pc = "pre_sleep"
    /\ att.wake_low
    /\ ~att.wake_critical
    /\ att.kind = "none"

\* C29 witness: the handler returned for a critical battery with water in the
\* reservoir
C29_WitnessCritical ==
    /\ pc = "pre_sleep"
    /\ att.wake_critical
    /\ ~att.wake_low
    /\ att.kind = "none"

\* C30: under every stored calibration pair, also dry = wet and dry < wet, the
\* percentage returned for a raw sample lies in 0..100; with dry > wet it is
\* 0 for a sample at or above dry, 100 for a sample at or below wet, and no
\* larger sample converts to a larger percentage
C30_PercentRangeAndOrder ==
    pc = "converted" =>
        /\ current_humidity \in 0..100
        /\ sensor_dry > sensor_wet =>
              /\ current_raw_sensor >= sensor_dry => current_humidity = 0
              /\ current_raw_sensor <= sensor_wet => current_humidity = 100
              /\ \A raw \in ConvertSamples :
                    raw >= current_raw_sensor =>
                        sensor_raw_to_humidity_percent(raw) <= current_humidity

\* C30 witness: a sample between wet and dry converted to a percentage strictly
\* between the ends
C30_Witness ==
    /\ pc = "converted"
    /\ sensor_dry > sensor_wet
    /\ sensor_wet < current_raw_sensor /\ current_raw_sensor < sensor_dry
    /\ current_humidity \in 1..99

\* C30 witness: a conversion under equal calibration values
C30_WitnessEqualPair ==
    /\ pc = "converted"
    /\ sensor_dry = sensor_wet
    /\ current_humidity = 50

\* C30 witness: a conversion under dry < wet of a sample between the two
C30_WitnessSwappedPair ==
    /\ pc = "converted"
    /\ sensor_dry < sensor_wet
    /\ sensor_dry < current_raw_sensor /\ current_raw_sensor < sensor_wet
    /\ current_humidity \in 1..99

GateResults ==
    {"WATER_SENSOR_ERROR", "WATER_NOT_NEEDED", "WATER_RESERVOIR_LOW", "WATER_BATTERY_LOW",
     "WATER_TOO_SOON"}

\* the result the gates of watering_manual yield for the readings of the attempt
ManualFirstFailingGate ==
    IF att.low THEN "WATER_RESERVOIR_LOW"
    ELSE IF ~att.batt_ok THEN "WATER_BATTERY_LOW"
    ELSE IF ~att.force /\ ~att.interval_ok THEN "WATER_TOO_SOON"
    ELSE "PASS"

\* an attempt at which a gate fails, or whose result is that of a gate
GateStopped ==
    \/ att.kind \in {"auto", "manual"} /\ result \in GateResults
    \/ AutoAttempt /\ FirstFailingGate # "PASS"
    \/ ManualAttempt /\ ManualFirstFailingGate # "PASS"

\* C31: a call of watering_check_and_execute or watering_manual at which a
\* gate fails returns a gate result with the stored last-watering timestamp
\* as it was at the entry, no call of pump_run_timed and the pump off; and the
\* step that returns a gate result changes neither the timestamp nor the
\* time accumulator nor the pump state
C31_GateFrame ==
    /\ [](GateStopped =>
            /\ result \in GateResults
            /\ pc = "pre_sleep"
            /\ last_water = att.entry_last_water
            /\ att.ts_writes = 0
            /\ att.pump_calls = 0
            /\ att.pump_ons = 0
            /\ ~pump_running)
    /\ [][result' \in GateResults =>
            /\ last_water' = last_water
            /\ total_time' = total_time
            /\ pump_running' = pump_running]_vars

\* C31 witness: watering_check_and_execute returned WATER_TOO_SOON with a
\* timestamp stored and left it
C31_Witness ==
    /\ AutoAttempt
    /\ result = "WATER_TOO_SOON"
    /\ last_water # 0
    /\ last_water = att.entry_last_water
    /\ total_time - last_water < MIN_WATERING_INTERVAL_SEC

\* C31 witness: watering_manual returned WATER_BATTERY_LOW
C31_WitnessManual ==
    /\ ManualAttempt
    /\ ~att.force
    /\ result = "WATER_BATTERY_LOW"
    /\ last_water = att.entry_last_water

\* C32: the pump is on only inside the run loop of pump_run_timed: every
\* return of pump_run_timed (the battery refusal at its start, the abort in
\* the run loop, the end of the duration) leaves the pump off, and it is off
\* in every soak wait, at every re-sample, between two pulses and in deep
\* sleep
C32_OffOutsideRun ==
    /\ [](pc # "pump_run" => ~pump_running)
    /\ [][(pc \in {"pump_call", "pump_run"} /\ pc' # "pump_run") =>
            (~pump_running' /\ att'.returned \in {"TRUE", "FALSE"})]_vars

\* C32 witness: the soak wait after a pulse that ran to its end
C32_Witness ==
    /\ pc = "soak"
    /\ att.returned = "TRUE"
    /\ att.pump_ons = 2
    /\ ~pump_running

\* C32 witness: the run loop was left by the battery check with the pump on
\* before
C32_WitnessAbort ==
    /\ pc = "pre_sleep"
    /\ att.aborted
    /\ att.pump_ons > 0
    /\ ~pump_running

\* a step in which watering_check_and_execute or watering_manual(false)
\* writes the last-watering timestamp
UnforcedCommit ==
    /\ att'.kind \in {"auto", "manual"}
    /\ ~att'.force
    /\ att'.ts_writes = att.ts_writes + 1

\* C33: on a device followed from its fresh flash, where every stored
\* timestamp other than 0 was written by a watering, a timestamp written by
\* watering_check_and_execute or watering_manual(false) is at least
\* MIN_WATERING_INTERVAL_SEC above the timestamp it replaces
C33_CommitsApart ==
    [][(UnforcedCommit /\ last_water # 0) =>
          last_water' >= last_water + MIN_WATERING_INTERVAL_SEC]_vars

\* C33 witness: a second watering, recorded exactly one minimum interval after
\* the first
C33_Witness ==
    /\ pc = "pre_sleep"
    /\ att.kind = "auto"
    /\ att.ts_writes = 1
    /\ att.entry_last_water = MEASUREMENT_INTERVAL_SEC
    /\ last_water = MEASUREMENT_INTERVAL_SEC + MIN_WATERING_INTERVAL_SEC

\* C34: on a device followed from its fresh flash the stored last-watering
\* timestamp is never above the persistent time accumulator: every write of
\* the timestamp stores the value the accumulator has, and the accumulator
\* does not get smaller
C34_TimestampNotAhead ==
    /\ [](last_water <= total_time)
    /\ [][/\ last_water' # last_water => last_water' = total_time /\ total_time' = total_time
          /\ total_time' >= total_time]_vars

\* C34 witness: two wake cycles after a watering the timestamp is two
\* measurement intervals behind the accumulator
C34_Witness ==
    /\ boot_count = 3
    /\ last_water = MEASUREMENT_INTERVAL_SEC
    /\ total_time = 3 * MEASUREMENT_INTERVAL_SEC

\* C34 witness: a watering has just been recorded
C34_WitnessCommit ==
    /\ pc = "pre_sleep"
    /\ att.ts_writes = 1
    /\ last_water = total_time
    /\ last_water > att.entry_last_water

\* C35: an attempt of watering_check_and_execute whose initial humidity is at
\* or above DEFAULT_MAX_HUMIDITY calls pump_run_timed not once, whatever the
\* stored minimal threshold is
C35_NoPulseAtTarget ==
    (AutoAttempt /\ att.raw_valid /\ att.hum >= DEFAULT_MAX_HUMIDITY) =>
        /\ att.pump_calls = 0
        /\ att.pump_ons = 0

\* what holds of the pulse loop: with a stored threshold at or below
\* DEFAULT_MAX_HUMIDITY no pulse is issued from an initial humidity at the
\* target, and under every threshold a call of pump_run_timed after the first
\* is made with the latest re-sample below the target
C35_LaterPulsesBelowTarget ==
    AutoAttempt =>
        /\ (min_humid <= DEFAULT_MAX_HUMIDITY /\ att.raw_valid /\ att.hum >= DEFAULT_MAX_HUMIDITY)
              => att.pump_calls = 0
        /\ (pc \in {"pump_call", "pump_run"} /\ pulses > 0)
              => current_humidity < DEFAULT_MAX_HUMIDITY

\* a step of the adjustment at which a press was detected
PressDetected(kind) ==
    /\ Len(bt'.presses) = Len(bt.presses) + 1
    /\ bt'.presses[Len(bt'.presses)] = kind

\* C36: in an adjustment entered with a stored target in 0..100 the value at
\* hand and the value persisted stay in 0..100: a raise at a value above 95
\* and a lower at a value below 5 leave the value as it is, every other press
\* moves it by 5 without a wrap of the uint8_t, and the value saved is the
\* value at hand
C36_TargetStaysInRange ==
    /\ [](bt.entry_target # -1 => (current \in 0..100 /\ min_humid \in 0..100))
    /\ [](bt.action = "humidity_saved" => min_humid = current)
    /\ [][/\ PressDetected("raise") =>
               current' = (IF current > 95 THEN current ELSE current + 5)
          /\ PressDetected("lower") =>
               current' = (IF current < 5 THEN current ELSE current - 5)]_vars

\* C36 witness: a raise at 98 was refused and 98 saved
C36_Witness ==
    /\ bt.action = "humidity_saved"
    /\ bt.entry_target = 98
    /\ bt.presses = <<"raise">>
    /\ min_humid = 98

\* C36 witness: a lower at 3 was refused, the raise after it taken
C36_WitnessLow ==
    /\ bt.action = "humidity_saved"
    /\ bt.entry_target = 3
    /\ bt.presses = <<"lower", "raise">>
    /\ min_humid = 8

\* C37: when a re-sample of the pulse loop is outside the band of valid
\* samples, after at least one pulse that ran to its end, the loop ends there:
\* no call of pump_run_timed follows, the attempt returns WATER_PARTIAL, and
\* the last-watering timestamp is written with the current persistent time
C37_BadResampleIsPartial ==
    (AutoAttempt /\ att.bad_resample_at > 0) =>
        /\ pc = "pre_sleep"
        /\ result = "WATER_PARTIAL"
        /\ att.pump_calls = att.bad_resample_at
        /\ att.pump_ons = pulses
        /\ ~pump_running
        /\ att.ts_writes = 1
        /\ last_water = total_time

\* C37 witness: the re-sample after the second pulse read one count above the
\* band
C37_Witness ==
    /\ AutoAttempt
    /\ att.bad_resample_at = 2
    /\ pulses = 2
    /\ result = "WATER_PARTIAL"
    /\ last_water = total_time
    /\ att.entry_last_water # total_time

\* C38: when a call of pump_run_timed fails in the pulse loop with at least one
\* pulse counted, the loop ends there and the attempt returns WATER_PARTIAL,
\* not WATER_PUMP_FAILED, with the last-watering timestamp written
C38_LaterFailureIsPartial ==
    (AutoAttempt /\ att.returned = "FALSE" /\ pulses >= 1) =>
        /\ pc = "pre_sleep"
        /\ result = "WATER_PARTIAL"
        /\ att.pump_calls = pulses + 1
        /\ ~pump_running
        /\ att.ts_writes = 1
        /\ last_water = total_time

\* C38 witness: the battery refused the second pulse at its start
C38_Witness ==
    /\ AutoAttempt
    /\ att.returned = "FALSE"
    /\ ~att.aborted
    /\ pulses = 1
    /\ att.pump_ons = 1
    /\ result = "WATER_PARTIAL"

\* C38 witness: the third pulse was aborted in its run loop
C38_WitnessAbort ==
    /\ AutoAttempt
    /\ att.aborted
    /\ pulses = 2
    /\ att.pump_ons = 3
    /\ result = "WATER_PARTIAL"
    /\ last_water = total_time

\* C39: a call of watering_manual calls pump_run_timed at most once; it
\* returns WATER_OK exactly when that call returned true, and then has written
\* the last-watering timestamp with the current persistent time; when the
\* call returned false it returns WATER_PUMP_FAILED and the timestamp is the
\* one found at the entry
C39_ManualOnePulse ==
    ManualAttempt =>
        /\ att.pump_calls <= 1
        /\ att.pump_ons <= 1
        /\ result = "WATER_OK" <=> att.returned = "TRUE"
        /\ att.ts_writes = (IF att.returned = "TRUE" THEN 1 ELSE 0)
        /\ att.returned = "TRUE" => (last_water = total_time /\ pc = "pre_sleep")
        /\ att.returned = "FALSE"
              => /\ result = "WATER_PUMP_FAILED"
                 /\ last_water = att.entry_last_water
                 /\ pc = "pre_sleep"
        /\ att.returned = "NONE" => last_water = att.entry_last_water

\* C39 witness: the one activation ran to its end and the timestamp moved
C39_Witness ==
    /\ ManualAttempt
    /\ ~att.force
    /\ att.pump_ons = 1
    /\ att.returned = "TRUE"
    /\ result = "WATER_OK"
    /\ last_water = total_time
    /\ att.entry_last_water # total_time

\* C39 witness: the activation was aborted in the run loop
C39_WitnessFailed ==
    /\ ManualAttempt
    /\ att.aborted
    /\ result = "WATER_PUMP_FAILED"
    /\ att.ts_writes = 0

SecondsAnswered == pc = "query_done" /\ att.kind = "seconds"

\* C40: for every stored timestamp and persistent time,
\* watering_get_seconds_until_allowed returns 0 exactly when interval_elapsed
\* is true, and otherwise MIN_WATERING_INTERVAL_SEC - (current - last), which
\* lies in 1..MIN_WATERING_INTERVAL_SEC
C40_SecondsMatchInterval ==
    SecondsAnswered =>
        /\ att.seconds_until = 0 <=> interval_elapsed
        /\ ~interval_elapsed =>
              /\ total_time >= last_water
              /\ att.seconds_until = MIN_WATERING_INTERVAL_SEC - (total_time - last_water)
              /\ att.seconds_until \in 1..MIN_WATERING_INTERVAL_SEC

\* C40 witness: one second before the interval is over, one second is left
C40_Witness ==
    /\ SecondsAnswered
    /\ total_time - last_water = MIN_WATERING_INTERVAL_SEC - 1
    /\ att.seconds_until = 1

\* C40 witness: at the time of the watering itself the whole interval is left
C40_WitnessWhole ==
    /\ SecondsAnswered
    /\ last_water > 0
    /\ total_time = last_water
    /\ att.seconds_until = MIN_WATERING_INTERVAL_SEC

\* C40 witness: a stored timestamp ahead of the persistent time, and zero
C40_WitnessAhead ==
    /\ SecondsAnswered
    /\ total_time < last_water
    /\ att.seconds_until = 0

====
